---- MODULE Spec2Model ----
(***************************************************************************)
(* Model of python/ControlPlots.py of HHbbVV: the hybrid bb / VV jet       *)
(* candidate policy (lines 59-112), the gen matching analysis of the       *)
(* signal sample (lines 115-186) and the derived variables (lines          *)
(* 281-334), run over the samples of `keys`; and of the vector helpers of  *)
(* python/utils.py.                                                        *)
(*                                                                         *)
(* Units.  Angles (phi, eta) and Delta R are integers in hundredths        *)
(* (0.1 rad is 10, dR = 1 is 100, pi is 314); tagger scores are in         *)
(* hundredths (0.9 is 90); pt, masses and energies are integers in GeV.    *)
(* Delta R values are compared through their squares, which orders them    *)
(* exactly as the square roots the vector library takes.                   *)
(*                                                                         *)
(* Arrays.  A numpy array of shape (N,) is a sequence of N scalars; one of *)
(* shape (N,2) is a sequence of N rows, each a sequence of 2 entries.      *)
(* A sample is a function from field names to arrays; a field name is the  *)
(* triple <<prefix, object, rest>>, so 'ak8FatJetPt' is                    *)
(* <<"ak8", "FatJet", "Pt">> and 'weight' is <<"", "weight", "">>.         *)
(***************************************************************************)
EXTENDS Integers, Sequences, FiniteSets, TLC

VARIABLES events, pc, iter, bb_mask, VV_mask, VV_cand_overlap,
          VV_not_cand_farther, final_VV_mask, raised,
          \* what the script has printed
          printed,
          \* the gen matching analysis
          bb_cut, VV_cut, bbVV_cut, bb_cand_correct, VV_cand_correct,
          VV_leading_correct, tot_events, tot_bbVV_cut_events, fractions,
          \* a call of a library function and what it returned
          call, ret

\* the variables of the hybrid policy loop
policy_vars == <<bb_mask, VV_mask, VV_cand_overlap, VV_not_cand_farther,
                 final_VV_mask>>

\* the variables of the gen matching analysis
gen_vars == <<bb_cut, VV_cut, bbVV_cut, bb_cand_correct, VV_cand_correct,
              VV_leading_correct, tot_events, tot_bbVV_cut_events, fractions>>

\* the variables of a library call
call_vars == <<call, ret>>

vars == <<events, pc, iter, policy_vars, raised, printed, gen_vars, call_vars>>

(***************************************************************************)
(* Program constants                                                       *)
(***************************************************************************)
\* mutant: the signal sample is listed first, the loops end on 'Data'
keys_SignalFirst == <<"HHbbVV4q", "V", "Top", "QCD", "Data">>

\* keys = ['V', 'Top', 'QCD', 'Data', 'HHbbVV4q']
keys == <<"V", "Top", "QCD", "Data", "HHbbVV4q">>

\* sig = 'HHbbVV4q'
sig == "HHbbVV4q"

\* dR = 1, in hundredths
dR == 100

\* pad_val(..., 2, -99999, axis=1): the fill of a missing jet's kinematics,
\* in hundredths for the angles
PadKin == -99999
PadAngle == -9999900

\* pad_val(Txbb, 2, -1, axis=1): the fill of a missing jet's tagger score
PadScore == -100

\* pi and 2 pi of the azimuthal wrap-around, in hundredths
Pi == 314
TwoPi == 628

(***************************************************************************)
(* Bounds of the model                                                     *)
(***************************************************************************)
\* longest batch built from CoreEvents
MaxN == 2

(***************************************************************************)
(* numpy / awkward array operations used by the script                     *)
(***************************************************************************)
Abs(x) == IF x < 0 THEN -x ELSE x

\* x[:, 0:1]: the (N,1) column of slot 0
Col0(arr) == [r \in 1..Len(arr) |-> <<arr[r][1]>>]

\* x[:, 1:2]: the (N,1) column of slot 1
Col1(arr) == [r \in 1..Len(arr) |-> <<arr[r][2]>>]

\* mutant: a > b, so that a tie selects slot 1
GreaterEqual_Strict(a, b) == [r \in 1..Len(a) |-> <<a[r][1] > b[r][1]>>]

\* a >= b, element-wise on two (N,1) arrays
GreaterEqual(a, b) == [r \in 1..Len(a) |-> <<a[r][1] >= b[r][1]>>]

\* ~m, element-wise
Invert(m) == [r \in 1..Len(m) |-> [c \in 1..Len(m[r]) |-> ~m[r][c]]]

\* concatenate([a, b], axis=1)
ConcatAxis1(a, b) == [r \in 1..Len(a) |-> a[r] \o b[r]]

\* the entries of one row that the row of the mask selects, in slot order
RECURSIVE RowSelect(_, _)
RowSelect(row, mrow) ==
  IF row = <<>> THEN <<>>
  ELSE (IF Head(mrow) THEN <<Head(row)>> ELSE <<>>)
         \o RowSelect(Tail(row), Tail(mrow))

\* arr[mask] for an (N,2) array and an (N,2) boolean mask: the 1-d array of
\* the selected entries in row-major order (its length is the number of true
\* entries of the mask, whatever their rows)
RECURSIVE BoolIndex(_, _)
BoolIndex(arr, mask) ==
  IF arr = <<>> THEN <<>>
  ELSE RowSelect(Head(arr), Head(mask)) \o BoolIndex(Tail(arr), Tail(mask))

\* a * b on two 1-d boolean arrays (logical and)
BoolTimes(a, b) == [r \in 1..Len(a) |-> a[r] /\ b[r]]

\* mutant: the flip reaches slot 0 only
XorBroadcast_FirstColumn(mask, flip) ==
  [r \in 1..Len(mask) |->
     [c \in 1..Len(mask[r]) |-> IF c = 1 THEN mask[r][c] # flip[r] ELSE mask[r][c]]]

\* mask ^ flip for the awkward (N, var) mask and the 1-d numpy flip: awkward
\* broadcasts flip[r] over the entries of row r
XorBroadcast(mask, flip) ==
  [r \in 1..Len(mask) |-> [c \in 1..Len(mask[r]) |-> mask[r][c] # flip[r]]]

(***************************************************************************)
(* vector library                                                          *)
(***************************************************************************)
\* vector.array({"pt": .., "phi": .., "eta": .., "M": ..})
VectorArray(pt, phi, eta, M) == [pt |-> pt, phi |-> phi, eta |-> eta, M |-> M]

\* v[mask] on a vector array: the mask indexes every component
VectorIndex(v, mask) ==
  [pt |-> BoolIndex(v.pt, mask), phi |-> BoolIndex(v.phi, mask),
   eta |-> BoolIndex(v.eta, mask), M |-> BoolIndex(v.M, mask)]

\* mutant: the azimuthal difference is not wrapped
DeltaPhi_NoWrap(phi1, phi2) == phi1 - phi2

\* deltaphi: (phi1 - phi2 + pi) mod 2 pi - pi, in [-pi, pi)
DeltaPhi(phi1, phi2) == ((phi1 - phi2 + Pi) % TwoPi) - Pi

\* deltaR of two directions: sqrt(deta^2 + dphi^2), kept as the two legs
DeltaR(eta1, phi1, eta2, phi2) ==
  [deta |-> Abs(eta1 - eta2), dphi |-> Abs(DeltaPhi(phi1, phi2))]

\* mutant: every event is measured from the first event's bb candidate
DeltaRArray_FirstRow(a, b) ==
  [r \in 1..Len(a.phi) |-> DeltaR(a.eta[1], a.phi[1], b.eta[r], b.phi[r])]

\* a.deltaR(b), element-wise on two 1-d vector arrays
DeltaRArray(a, b) ==
  [r \in 1..Len(a.phi) |-> DeltaR(a.eta[r], a.phi[r], b.eta[r], b.phi[r])]

\* deta2^2 - deta1^2 for deta1 < deta2, cut off at 100000: a leg dphi is at
\* most pi, so two dphi^2 differ by less than 100000 and the cut changes no
\* comparison; the product is taken only where it fits the integers
LegExcess(small, big) ==
  IF big + small > 100000 \/ big - small >= 1000
  THEN 100000
  ELSE (big - small) * (big + small)

\* d1 < d2 for two Delta R values: deta1^2 + dphi1^2 < deta2^2 + dphi2^2
DRLess(d1, d2) ==
  IF d1.deta = d2.deta THEN d1.dphi < d2.dphi
  ELSE IF d1.deta < d2.deta
  THEN d1.dphi * d1.dphi - d2.dphi * d2.dphi < LegExcess(d1.deta, d2.deta)
  ELSE LegExcess(d2.deta, d1.deta) < d2.dphi * d2.dphi - d1.dphi * d1.dphi

\* d < x for a Delta R value and a number
DRLessNum(d, x) == DRLess(d, [deta |-> 0, dphi |-> x])

\* dist < x, element-wise
ArrayLessNum(dist, x) == [r \in 1..Len(dist) |-> DRLessNum(dist[r], x)]

\* a > b, element-wise on two 1-d Delta R arrays
ArrayGreater(a, b) == [r \in 1..Len(a) |-> DRLess(b[r], a[r])]

(***************************************************************************)
(* Field names                                                             *)
(***************************************************************************)
Name(coll, obj, kin) == <<coll, obj, kin>>

Txbb == Name("ak8", "FatJet", "ParticleNetMD_Txbb")
Th4q == Name("ak15", "FatJet", "ParticleNet_Th4q")
Weight == Name("", "weight", "")

\* var.startswith('ak8FatJet')
StartsWithAk8FatJet(var) == var[1] = "ak8" /\ var[2] = "FatJet"

\* var.startswith('ak15FatJet')
StartsWithAk15FatJet(var) == var[1] = "ak15" /\ var[2] = "FatJet"

\* 'bb' + var.split('ak8')[1]
bbNewVar(var) == Name("bb", var[2], var[3])

\* 'VV' + var.split('ak15')[1]
VVNewVar(var) == Name("VV", var[2], var[3])

(***************************************************************************)
(* Hybrid policy, lines 63-112: one iteration of the loop over keys        *)
(***************************************************************************)
\* mutant: the second column is not inverted
BbMask_NoInvert(ev) ==
  LET jet1_bb_leading == GreaterEqual(Col0(ev[Txbb]), Col1(ev[Txbb]))
  IN  ConcatAxis1(jet1_bb_leading, jet1_bb_leading)

\* jet1_bb_leading, bb_mask (lines 66-67)
BbMask(ev) ==
  LET jet1_bb_leading == GreaterEqual(Col0(ev[Txbb]), Col1(ev[Txbb]))
  IN  ConcatAxis1(jet1_bb_leading, Invert(jet1_bb_leading))

\* jet1_VV_leading, VV_mask (lines 69-70)
VVMask(ev) ==
  LET jet1_VV_leading == GreaterEqual(Col0(ev[Th4q]), Col1(ev[Th4q]))
  IN  ConcatAxis1(jet1_VV_leading, Invert(jet1_VV_leading))

\* ak8FatJet / ak15FatJet (lines 74-86)
FatJetVector(ev, coll) ==
  VectorArray(ev[Name(coll, "FatJet", "Pt")], ev[Name(coll, "FatJet", "Phi")],
              ev[Name(coll, "FatJet", "Eta")], ev[Name(coll, "FatJet", "Msd")])

\* bb_cand_VV_cand_dist (line 91)
BbCandVVCandDist(ev, bbm, VVm) ==
  DeltaRArray(VectorIndex(FatJetVector(ev, "ak8"), bbm),
              VectorIndex(FatJetVector(ev, "ak15"), VVm))

\* mutant: the other slot is measured from the VV candidate, not from the
\* bb candidate
BbCandVVNotCandDist_FromVV(ev, bbm, VVm) ==
  DeltaRArray(VectorIndex(FatJetVector(ev, "ak15"), VVm),
              VectorIndex(FatJetVector(ev, "ak15"), Invert(VVm)))

\* bb_cand_VV_not_cand_dist (line 95)
BbCandVVNotCandDist(ev, bbm, VVm) ==
  DeltaRArray(VectorIndex(FatJetVector(ev, "ak8"), bbm),
              VectorIndex(FatJetVector(ev, "ak15"), Invert(VVm)))

\* mutant: every event counts as an overlap, whatever its Delta R
VVCandOverlap_Always(cand_dist) == [r \in 1..Len(cand_dist) |-> TRUE]

\* mutant: Delta R = dR counts as an overlap
VVCandOverlap_Inclusive(cand_dist) ==
  [r \in 1..Len(cand_dist) |-> ~DRLess([deta |-> 0, dphi |-> dR], cand_dist[r])]

\* mutant: one overlapping event makes every event of the batch overlap
VVCandOverlap_AnyRow(cand_dist) ==
  [r \in 1..Len(cand_dist) |->
     \E q \in 1..Len(cand_dist) : DRLessNum(cand_dist[q], dR)]

\* VV_cand_overlap (line 92)
VVCandOverlap(cand_dist) == ArrayLessNum(cand_dist, dR)

\* mutant: any other distance counts as farther, a smaller one too
VVNotCandFarther_Differs(not_cand_dist, cand_dist) ==
  [r \in 1..Len(cand_dist) |-> not_cand_dist[r] # cand_dist[r]]

\* mutant: the comparison is turned round
VVNotCandFarther_Closer(not_cand_dist, cand_dist) ==
  ArrayGreater(cand_dist, not_cand_dist)

\* VV_not_cand_farther (line 96)
VVNotCandFarther(not_cand_dist, cand_dist) ==
  ArrayGreater(not_cand_dist, cand_dist)

\* mutant: no event is flipped
FinalVVMask_NeverFlip(VVm, overlap, farther) == VVm

\* mutant: every overlapping event is flipped
FinalVVMask_OverlapOnly(VVm, overlap, farther) == XorBroadcast(VVm, overlap)

\* final_VV_mask (line 99)
FinalVVMask(VVm, overlap, farther) ==
  XorBroadcast(VVm, BoolTimes(overlap, farther))

\* the number of entries a mask selects
RECURSIVE CountTrue(_)
CountTrue(mask) ==
  IF mask = <<>> THEN 0
  ELSE Len(RowSelect(Head(mask), Head(mask))) + CountTrue(Tail(mask))

\* the element-wise operations of lines 91-99 need operands of one length:
\* the two masked vector arrays of each deltaR, and the flip against the
\* rows of VV_mask; numpy and awkward raise otherwise
ShapesAgree(ev, bbm, VVm) ==
  /\ CountTrue(bbm) = CountTrue(VVm)
  /\ CountTrue(bbm) = CountTrue(Invert(VVm))
  /\ CountTrue(bbm) = Len(VVm)

\* mutant: the selected values are written over the ak8FatJet* and
\* ak15FatJet* fields themselves
AssignCandidates_InPlace(ev, bbm, finalm) ==
  [var \in DOMAIN ev |->
     IF StartsWithAk8FatJet(var) THEN BoolIndex(ev[var], bbm)
     ELSE IF StartsWithAk15FatJet(var) THEN BoolIndex(ev[var], finalm)
     ELSE ev[var]]

\* mutant: the bb* fields are masked with final_VV_mask too
AssignCandidates_bbFromFinal(ev, bbm, finalm) ==
  LET snapshot == DOMAIN ev
      bbvars == {var \in snapshot : StartsWithAk8FatJet(var)}
      VVvars == {var \in snapshot : ~StartsWithAk8FatJet(var)
                                     /\ StartsWithAk15FatJet(var)}
      bbnew == [name \in {bbNewVar(var) : var \in bbvars} |->
                  BoolIndex(ev[CHOOSE var \in bbvars : bbNewVar(var) = name],
                            finalm)]
      VVnew == [name \in {VVNewVar(var) : var \in VVvars} |->
                  BoolIndex(ev[CHOOSE var \in VVvars : VVNewVar(var) = name],
                            finalm)]
  IN  VVnew @@ bbnew @@ ev

\* the loop of lines 103-112 over the snapshot list(zip(vars, values)):
\* each ak8FatJet* field gives a bb* field, each ak15FatJet* field a VV* one
AssignCandidates(ev, bbm, finalm) ==
  LET snapshot == DOMAIN ev
      bbvars == {var \in snapshot : StartsWithAk8FatJet(var)}
      VVvars == {var \in snapshot : ~StartsWithAk8FatJet(var)
                                     /\ StartsWithAk15FatJet(var)}
      bbnew == [name \in {bbNewVar(var) : var \in bbvars} |->
                  BoolIndex(ev[CHOOSE var \in bbvars : bbNewVar(var) = name], bbm)]
      VVnew == [name \in {VVNewVar(var) : var \in VVvars} |->
                  BoolIndex(ev[CHOOSE var \in VVvars : VVNewVar(var) = name],
                            finalm)]
  IN  VVnew @@ bbnew @@ ev

\* the kinematic fields vector.array reads for a collection (lines 74-86)
RequiredKin(coll) ==
  {Name(coll, "FatJet", kin) : kin \in {"Pt", "Phi", "Eta", "Msd"}}

\* the values one iteration computes from the sample ev, and the stage it
\* ends at: "done", or the statement that raises: the KeyError of a missing
\* field at line 66 ("Txbb"), at line 69 ("Th4q") or at lines 74-86
\* ("vector"), the shape error of lines 91-99 ("deltaR")
PolicyRun(ev) ==
  LET bbm == BbMask(ev)
      VVm == VVMask(ev)
      cand_dist == BbCandVVCandDist(ev, bbm, VVm)
      not_cand_dist == BbCandVVNotCandDist(ev, bbm, VVm)
      overlap == VVCandOverlap(cand_dist)
      farther == VVNotCandFarther(not_cand_dist, cand_dist)
      finalm == FinalVVMask(VVm, overlap, farther)
      stage ==
        IF Txbb \notin DOMAIN ev THEN "Txbb"
        ELSE IF Th4q \notin DOMAIN ev THEN "Th4q"
        ELSE IF ~((RequiredKin("ak8") \cup RequiredKin("ak15")) \subseteq DOMAIN ev)
        THEN "vector"
        ELSE IF ~ShapesAgree(ev, bbm, VVm) THEN "deltaR"
        ELSE "done"
  IN  [ok |-> stage = "done", stage |-> stage,
       bb_mask |-> IF stage = "Txbb" THEN <<>> ELSE bbm,
       VV_mask |-> IF stage \in {"Txbb", "Th4q"} THEN <<>> ELSE VVm,
       VV_cand_overlap |-> IF stage = "done" THEN overlap ELSE <<>>,
       VV_not_cand_farther |-> IF stage = "done" THEN farther ELSE <<>>,
       final_VV_mask |-> IF stage = "done" THEN finalm ELSE <<>>,
       sample |-> IF stage = "done" THEN AssignCandidates(ev, bbm, finalm) ELSE ev]

\* what one iteration prints after print(key), up to the stage it ends at
\* (lines 72, 88, 101)
ProgressLines(stage) ==
  CASE stage \in {"Txbb", "Th4q"} -> <<>>
    [] stage = "vector" -> <<"prelim masks">>
    [] stage = "deltaR" -> <<"prelim masks", "fat jet arrays">>
    [] stage = "done" -> <<"prelim masks", "fat jet arrays", "final masks">>

\* mutant: an iteration that fails is skipped and the loop goes on
HybridPolicy_SkipsOnError ==
  /\ pc = "policy"
  /\ LET key == keys[iter]
         run == PolicyRun(events[key])
     IN  /\ printed' = printed \o <<key>> \o ProgressLines(run.stage)
         /\ bb_mask' = IF run.stage = "Txbb" THEN bb_mask ELSE run.bb_mask
         /\ VV_mask' = IF run.stage \in {"Txbb", "Th4q"} THEN VV_mask
                       ELSE run.VV_mask
         /\ IF run.ok
            THEN /\ VV_cand_overlap' = run.VV_cand_overlap
                 /\ VV_not_cand_farther' = run.VV_not_cand_farther
                 /\ final_VV_mask' = run.final_VV_mask
                 /\ events' = [events EXCEPT ![key] = run.sample]
                 /\ iter' = IF iter = Len(keys) THEN 1 ELSE iter + 1
                 /\ pc' = IF iter = Len(keys) THEN "gen" ELSE "policy"
                 /\ UNCHANGED raised
            ELSE /\ iter' = IF iter = Len(keys) THEN 1 ELSE iter + 1
                 /\ pc' = IF iter = Len(keys) THEN "gen" ELSE "policy"
                 /\ UNCHANGED <<events, raised, VV_cand_overlap,
                                VV_not_cand_farther, final_VV_mask>>
  /\ UNCHANGED <<gen_vars, call_vars>>

HybridPolicy ==
  /\ pc = "policy"
  /\ LET key == keys[iter]
         run == PolicyRun(events[key])
     IN  /\ printed' = printed \o <<key>> \o ProgressLines(run.stage)
         /\ bb_mask' = IF run.stage = "Txbb" THEN bb_mask ELSE run.bb_mask
         /\ VV_mask' = IF run.stage \in {"Txbb", "Th4q"} THEN VV_mask
                       ELSE run.VV_mask
         /\ IF run.ok
            THEN /\ VV_cand_overlap' = run.VV_cand_overlap
                 /\ VV_not_cand_farther' = run.VV_not_cand_farther
                 /\ final_VV_mask' = run.final_VV_mask
                 /\ events' = [events EXCEPT ![key] = run.sample]
                 /\ iter' = IF iter = Len(keys) THEN 1 ELSE iter + 1
                 /\ pc' = IF iter = Len(keys) THEN "gen" ELSE "policy"
                 /\ UNCHANGED raised
            ELSE /\ raised' = TRUE
                 /\ pc' = "raised"
                 /\ UNCHANGED <<events, iter, VV_cand_overlap,
                                VV_not_cand_farther, final_VV_mask>>
  /\ UNCHANGED <<gen_vars, call_vars>>

(***************************************************************************)
(* Floating-point values of the derived variables: a finite number, an     *)
(* infinity with its sign, or NaN                                          *)
(***************************************************************************)
Num(v) == [k |-> "num", v |-> v]
Inf(s) == [k |-> "inf", v |-> s]
NaN == [k |-> "nan", v |-> 0]

Sgn(x) == IF x < 0 THEN -1 ELSE IF x > 0 THEN 1 ELSE 0

\* a + b
XAdd(a, b) ==
  IF a.k = "nan" \/ b.k = "nan" THEN NaN
  ELSE IF a.k = "inf" /\ b.k = "inf" THEN (IF a.v = b.v THEN a ELSE NaN)
  ELSE IF a.k = "inf" THEN a
  ELSE IF b.k = "inf" THEN b
  ELSE Num(a.v + b.v)

\* a * b
XMul(a, b) ==
  IF a.k = "nan" \/ b.k = "nan" THEN NaN
  ELSE IF a.k = "inf" \/ b.k = "inf"
  THEN (IF Sgn(a.v) * Sgn(b.v) = 0 THEN NaN ELSE Inf(Sgn(a.v) * Sgn(b.v)))
  ELSE Num(a.v * b.v)

\* a / b of two numbers with b # 0, rounded toward zero
Quot(a, b) == Sgn(a) * Sgn(b) * (Abs(a) \div Abs(b))

\* mutant: a zero denominator is clamped, the quotient is 0
XDiv_Clamped(a, b, scale) ==
  IF a.k = "nan" \/ b.k = "nan" THEN NaN
  ELSE IF a.k = "inf" THEN (IF b.k = "inf" THEN NaN
                            ELSE Inf(IF b.v < 0 THEN -a.v ELSE a.v))
  ELSE IF b.k = "inf" THEN Num(0)
  ELSE IF b.v = 0 THEN Num(0)
  ELSE Num(Quot(a.v * scale, b.v))

\* a / b, the quotient scaled by `scale`
XDiv(a, b, scale) ==
  IF a.k = "nan" \/ b.k = "nan" THEN NaN
  ELSE IF a.k = "inf" THEN (IF b.k = "inf" THEN NaN
                            ELSE Inf(IF b.v < 0 THEN -a.v ELSE a.v))
  ELSE IF b.k = "inf" THEN Num(0)
  ELSE IF b.v = 0 THEN (IF a.v = 0 THEN NaN ELSE Inf(Sgn(a.v)))
  ELSE Num(Quot(a.v * scale, b.v))

\* floor of the square root of n >= 0, by bisection of lo..hi
RECURSIVE Bisect(_, _, _)
Bisect(n, lo, hi) ==
  IF lo >= hi THEN lo
  ELSE LET mid == (lo + hi + 1) \div 2
       IN  IF mid * mid <= n THEN Bisect(n, mid, hi) ELSE Bisect(n, lo, mid - 1)

ISqrt(n) == Bisect(n, 0, IF n < 1048576 THEN 1023 ELSE 46340)

\* sqrt(x^2 + y^2) of two finite numbers; past 30000 the legs are taken in
\* units of 100 so that the squares fit
Hypot(x, y) ==
  IF Abs(x) > 30000 \/ Abs(y) > 30000
  THEN 100 * ISqrt(Quot(x, 100) * Quot(x, 100) + Quot(y, 100) * Quot(y, 100))
  ELSE ISqrt(x * x + y * y)

\* 100 cos(phi) and 100 sin(phi), rounded, for the azimuths of the model
Cos100(phi) ==
  CASE phi = 0 -> 100 [] phi = 5 -> 100 [] phi = 10 -> 100 [] phi = 15 -> 99
    [] phi = 80 -> 70 [] phi = 100 -> 54 [] phi = 200 -> -42
    [] phi = 314 -> -100 [] phi = PadAngle -> -51

Sin100(phi) ==
  CASE phi = 0 -> 0 [] phi = 5 -> 5 [] phi = 10 -> 10 [] phi = 15 -> 15
    [] phi = 80 -> 72 [] phi = 100 -> 84 [] phi = 200 -> 91
    [] phi = 314 -> 0 [] phi = PadAngle -> -86

\* 100 sinh(eta), rounded, for the pseudorapidities of the model; sinh of
\* the fill value overflows to -infinity
Sinh100(eta) ==
  CASE eta = 0 -> Num(0) [] eta = 60 -> Num(64) [] eta = PadAngle -> Inf(-1)

\* a Lorentz vector of the vector library in Cartesian form, from
\* (pt, phi, eta, M): x = pt cos(phi), y = pt sin(phi), z = pt sinh(eta),
\* t = sqrt(M^2 + x^2 + y^2 + z^2)
Cartesian(pt, phi, eta, M) ==
  LET x == Quot(pt * Cos100(phi), 100)
      y == Quot(pt * Sin100(phi), 100)
      z == XDiv(XMul(Num(pt), Sinh100(eta)), Num(100), 1)
  IN  [x |-> x, y |-> y, z |-> z,
       t |-> IF z.k = "num"
             THEN Num(ISqrt(M * M + x * x + y * y + z.v * z.v))
             ELSE IF z.k = "inf" THEN Inf(1) ELSE NaN]

\* mutant: the transverse components are added as magnitudes, as a scalar
\* sum of pt would
VectorAdd_Magnitudes(a, b) ==
  [x |-> Abs(a.x) + Abs(b.x), y |-> Abs(a.y) + Abs(b.y),
   z |-> XAdd(a.z, b.z), t |-> XAdd(a.t, b.t)]

\* a + b of two Lorentz vectors
VectorAdd(a, b) ==
  [x |-> a.x + b.x, y |-> a.y + b.y, z |-> XAdd(a.z, b.z), t |-> XAdd(a.t, b.t)]

\* v.pt
VectorPt(v) == Num(Hypot(v.x, v.y))

\* v.M: sqrt(t^2 - x^2 - y^2 - z^2), with the sign of the radicand
VectorM(v) ==
  IF v.t.k = "num" /\ v.z.k = "num"
  THEN LET m2 == v.t.v * v.t.v - v.x * v.x - v.y * v.y - v.z.v * v.z.v
       IN  Num(Sgn(m2) * ISqrt(Abs(m2)))
  ELSE NaN

\* v.eta = arcsinh(z / pt), with nan_to_num(nan=0); kept as 100 sinh(eta),
\* that is 100 z / pt, which is one-to-one with eta
VectorEta(v) ==
  LET q == XDiv(v.z, VectorPt(v), 100)
  IN  IF q.k = "nan" THEN Num(0) ELSE q

(***************************************************************************)
(* Gen matching analysis of the signal sample, lines 115-186               *)
(***************************************************************************)
\* the tagger cut of lines 120-121: 0.8, in hundredths
TaggerCut == 80

\* lines 124-127
B_PDGID == 5
Z_PDGID == 23
W_PDGID == 24
HIGGS_PDGID == 25

\* 'GenHiggsChildren'
GenHiggsChildren == Name("Gen", "Higgs", "Children")

\* vec_keys (line 129); a vec_key is the pair <<prefix, object>>
vec_keys == <<<<"ak8", "FatJet">>, <<"ak15", "FatJet">>, <<"Gen", "Higgs">>,
              <<"Gen", "bb">>, <<"Gen", "VV">>, <<"Gen", "4q">>>>

\* arr > x, element-wise on a 1-d array of numbers
ArrayGreaterNum(arr, x) == [r \in 1..Len(arr) |-> arr[r] > x]

\* np.sum of a 1-d boolean array
SumTrue(b) == Len(RowSelect(b, b))

\* abs(arr) == id, element-wise on an (N,2) array
AbsEquals(arr, id) ==
  [r \in 1..Len(arr) |-> [c \in 1..Len(arr[r]) |-> Abs(arr[r][c]) = id]]

\* a + b on two (N,2) boolean arrays (logical or)
BoolPlus(a, b) ==
  [r \in 1..Len(a) |-> [c \in 1..Len(a[r]) |-> a[r][c] \/ b[r][c]]]

\* f'{vec_key}Msd' in events[key] (line 136)
HasMsd(ev, vk) == Name(vk[1], vk[2], "Msd") \in DOMAIN ev

\* the fields the vector of a vec_key reads are there
VecKeyPresent(ev, vk) ==
  /\ {Name(vk[1], vk[2], kin) : kin \in {"Pt", "Phi", "Eta"}} \subseteq DOMAIN ev
  /\ HasMsd(ev, vk) \/ Name(vk[1], vk[2], "Mass") \in DOMAIN ev

\* vectors (lines 132-137): the mass is {vec_key}Msd when the sample has
\* that field and {vec_key}Mass otherwise
Vectors(ev) ==
  [vk \in {vec_keys[n] : n \in 1..Len(vec_keys)} |->
     VectorArray(ev[Name(vk[1], vk[2], "Pt")], ev[Name(vk[1], vk[2], "Phi")],
                 ev[Name(vk[1], vk[2], "Eta")],
                 IF HasMsd(ev, vk) THEN ev[Name(vk[1], vk[2], "Msd")]
                 ELSE ev[Name(vk[1], vk[2], "Mass")])]

\* mutant: the recomputed mask gives a tie to slot 1
GenBbMask_Strict(ev) ==
  LET jet1_bb_leading == GreaterEqual_Strict(Col0(ev[Txbb]), Col1(ev[Txbb]))
  IN  ConcatAxis1(jet1_bb_leading, Invert(jet1_bb_leading))

\* jet1_bb_leading, bb_mask computed again (lines 139-140)
GenBbMask(ev) ==
  LET jet1_bb_leading == GreaterEqual(Col0(ev[Txbb]), Col1(ev[Txbb]))
  IN  ConcatAxis1(jet1_bb_leading, Invert(jet1_bb_leading))

\* jet1_VV_leading, VV_mask computed again (lines 142-143)
GenVVMask(ev) ==
  LET jet1_VV_leading == GreaterEqual(Col0(ev[Th4q]), Col1(ev[Th4q]))
  IN  ConcatAxis1(jet1_VV_leading, Invert(jet1_VV_leading))

\* vector.array of the masked ak8 / ak15 fields (lines 145-164)
MaskedFatJet(ev, coll, mask) ==
  VectorArray(BoolIndex(ev[Name(coll, "FatJet", "Pt")], mask),
              BoolIndex(ev[Name(coll, "FatJet", "Phi")], mask),
              BoolIndex(ev[Name(coll, "FatJet", "Eta")], mask),
              BoolIndex(ev[Name(coll, "FatJet", "Msd")], mask))

\* is_HVV (line 167)
IsHVV(ev) ==
  BoolPlus(AbsEquals(ev[GenHiggsChildren], W_PDGID),
           AbsEquals(ev[GenHiggsChildren], Z_PDGID))

\* is_Hbb (line 168)
IsHbb(ev) == AbsEquals(ev[GenHiggsChildren], B_PDGID)

\* bb_cut (line 120), with the bb_mask the hybrid policy loop left
BbCut(ev, bbm) == ArrayGreaterNum(BoolIndex(ev[Txbb], bbm), TaggerCut)

\* VV_cut (line 121), with the VV_mask the hybrid policy loop left
VVCut(ev, VVm) == ArrayGreaterNum(BoolIndex(ev[Th4q], VVm), TaggerCut)

\* np.sum(correct) / tot_events (lines 178-180), in hundredths
Fraction(correct, tot) == XDiv(Num(SumTrue(correct)), Num(tot), 100)

\* np.sum(correct[bbVV_cut]) / tot_bbVV_cut_events (lines 182-186)
CutFraction(correct, cut) ==
  XDiv(Num(SumTrue(RowSelect(correct, cut))), Num(SumTrue(cut)), 100)

\* the values the analysis computes from the signal sample ev and the masks
\* the hybrid policy loop left, and the stage it ends at: "done", or the
\* statement that raises: the shape error of line 122 ("cut"), the KeyError
\* of lines 132-137 ("vectors") or of line 167 ("children"), the shape
\* error of lines 173-175 ("deltaR") or of lines 183-186 ("fractions")
GenRun(ev, bbm, VVm, finalm) ==
  LET bbcut == BbCut(ev, bbm)
      VVcut == VVCut(ev, VVm)
      bbVVcut == BoolTimes(bbcut, VVcut)
      vectors == Vectors(ev)
      new_bbm == GenBbMask(ev)
      new_VVm == GenVVMask(ev)
      bbLeadingFatJet == MaskedFatJet(ev, "ak8", new_bbm)
      VVLeadingFatJet == MaskedFatJet(ev, "ak15", new_VVm)
      VVCandFatJet == MaskedFatJet(ev, "ak15", finalm)
      genHVV == VectorIndex(vectors[<<"Gen", "Higgs">>], IsHVV(ev))
      genHbb == VectorIndex(vectors[<<"Gen", "Higgs">>], IsHbb(ev))
      bbcorrect == ArrayLessNum(DeltaRArray(genHbb, bbLeadingFatJet), dR)
      VVcorrect == ArrayLessNum(DeltaRArray(genHVV, VVCandFatJet), dR)
      VVleading == ArrayLessNum(DeltaRArray(genHVV, VVLeadingFatJet), dR)
      tot == Len(ev[Weight])
      stage ==
        IF Len(bbcut) # Len(VVcut) THEN "cut"
        ELSE IF \E n \in 1..Len(vec_keys) : ~VecKeyPresent(ev, vec_keys[n])
        THEN "vectors"
        ELSE IF GenHiggsChildren \notin DOMAIN ev THEN "children"
        ELSE IF \/ Len(genHbb.phi) # Len(bbLeadingFatJet.phi)
                \/ Len(genHVV.phi) # Len(VVCandFatJet.phi)
                \/ Len(genHVV.phi) # Len(VVLeadingFatJet.phi)
        THEN "deltaR"
        ELSE IF Len(bbcorrect) # Len(bbVVcut) THEN "fractions"
        ELSE "done"
      late == stage \in {"deltaR", "fractions", "done"}
      last == stage \in {"fractions", "done"}
  IN  [ok |-> stage = "done", stage |-> stage,
       bb_cut |-> bbcut, VV_cut |-> VVcut,
       bbVV_cut |-> IF stage = "cut" THEN <<>> ELSE bbVVcut,
       bb_mask |-> IF late \/ stage = "children" THEN new_bbm ELSE <<>>,
       VV_mask |-> IF late \/ stage = "children" THEN new_VVm ELSE <<>>,
       bb_cand_correct |-> IF last THEN bbcorrect ELSE <<>>,
       VV_cand_correct |-> IF last THEN VVcorrect ELSE <<>>,
       VV_leading_correct |-> IF last THEN VVleading ELSE <<>>,
       tot_events |-> IF last THEN tot ELSE 0,
       tot_bbVV_cut_events |-> IF stage = "done" THEN SumTrue(bbVVcut) ELSE 0,
       fractions |->
         IF stage = "done"
         THEN <<Fraction(bbcorrect, tot), Fraction(VVleading, tot),
                Fraction(VVcorrect, tot),
                CutFraction(bbcorrect, bbVVcut), CutFraction(VVcorrect, bbVVcut),
                CutFraction(BoolTimes(bbcorrect, VVcorrect), bbVVcut)>>
         ELSE <<>>]

GenMatching ==
  /\ pc = "gen"
  /\ LET run == GenRun(events[sig], bb_mask, VV_mask, final_VV_mask)
         masks == run.stage \in {"children", "deltaR", "fractions", "done"}
         last == run.stage \in {"fractions", "done"}
     IN  /\ bb_cut' = run.bb_cut
         /\ VV_cut' = run.VV_cut
         /\ bbVV_cut' = IF run.stage = "cut" THEN bbVV_cut ELSE run.bbVV_cut
         /\ bb_mask' = IF masks THEN run.bb_mask ELSE bb_mask
         /\ VV_mask' = IF masks THEN run.VV_mask ELSE VV_mask
         /\ bb_cand_correct' = IF last THEN run.bb_cand_correct
                               ELSE bb_cand_correct
         /\ VV_cand_correct' = IF last THEN run.VV_cand_correct
                               ELSE VV_cand_correct
         /\ VV_leading_correct' = IF last THEN run.VV_leading_correct
                                  ELSE VV_leading_correct
         /\ tot_events' = IF last THEN run.tot_events ELSE tot_events
         /\ IF run.ok
            THEN /\ tot_bbVV_cut_events' = run.tot_bbVV_cut_events
                 /\ fractions' = run.fractions
                 /\ pc' = "derived"
                 /\ UNCHANGED raised
            ELSE /\ raised' = TRUE
                 /\ pc' = "raised"
                 /\ UNCHANGED <<tot_bbVV_cut_events, fractions>>
  /\ UNCHANGED <<events, iter, VV_cand_overlap, VV_not_cand_farther,
                 final_VV_mask, printed, call_vars>>


(***************************************************************************)
(* Derived vars, lines 283-334: one iteration of the loop over keys        *)
(***************************************************************************)
\* vector.array of the 1-d candidate fields bbFatJet* / VVFatJet*
CandVector(ev, coll) ==
  VectorArray(ev[Name(coll, "FatJet", "Pt")], ev[Name(coll, "FatJet", "Phi")],
              ev[Name(coll, "FatJet", "Eta")], ev[Name(coll, "FatJet", "Msd")])

\* a + b, element-wise on two 1-d vector arrays
VectorArrayAdd(a, b) ==
  [r \in 1..Len(a.pt) |->
     VectorAdd(Cartesian(a.pt[r], a.phi[r], a.eta[r], a.M[r]),
               Cartesian(b.pt[r], b.phi[r], b.eta[r], b.M[r]))]

\* v[:, c] on a vector array of shape (N,2)
VectorColumn(v, c) ==
  [pt |-> [r \in 1..Len(v.pt) |-> v.pt[r][c]],
   phi |-> [r \in 1..Len(v.phi) |-> v.phi[r][c]],
   eta |-> [r \in 1..Len(v.eta) |-> v.eta[r][c]],
   M |-> [r \in 1..Len(v.M) |-> v.M[r][c]]]

\* mutant: the dijet takes the ak15 slot leading by score, as before the flip
Dijet_LeadingVV(ev) ==
  VectorArrayAdd(CandVector(ev, "bb"),
                 VectorIndex(FatJetVector(ev, "ak15"), VVMask(ev)))

\* Dijet = bbFatJet + VVFatJet (line 299)
Dijet(ev) == VectorArrayAdd(CandVector(ev, "bb"), CandVector(ev, "VV"))

\* ak8Dijet / ak15Dijet (lines 312, 321)
SlotDijet(ev, coll) ==
  VectorArrayAdd(VectorColumn(FatJetVector(ev, coll), 1),
                 VectorColumn(FatJetVector(ev, coll), 2))

ArrayPt(d) == [r \in 1..Len(d) |-> VectorPt(d[r])]
ArrayM(d) == [r \in 1..Len(d) |-> VectorM(d[r])]
ArrayEta(d) == [r \in 1..Len(d) |-> VectorEta(d[r])]

\* a / b, element-wise, of a 1-d array of numbers by a 1-d array of floats
ArrayOverFloat(a, b) == [r \in 1..Len(a) |-> XDiv(Num(a[r]), b[r], 100)]

\* a / b, element-wise, of two 1-d arrays of numbers
ArrayOver(a, b) == [r \in 1..Len(a) |-> XDiv(Num(a[r]), Num(b[r]), 100)]

\* the fields one iteration writes (lines 301-303, 323-334)
DerivedFields(ev) ==
  LET bbPt == ev[Name("bb", "FatJet", "Pt")]
      VVPt == ev[Name("VV", "FatJet", "Pt")]
      dijet == Dijet(ev)
      ak8Dijet == SlotDijet(ev, "ak8")
      ak15Dijet == SlotDijet(ev, "ak15")
      DijetPt == ArrayPt(dijet)
  IN  (Name("", "Dijet", "Pt") :> DijetPt)
      @@ (Name("", "Dijet", "Mass") :> ArrayM(dijet))
      @@ (Name("", "Dijet", "Eta") :> ArrayEta(dijet))
      @@ (Name("ak8", "Dijet", "Pt") :> ArrayPt(ak8Dijet))
      @@ (Name("ak8", "Dijet", "Mass") :> ArrayM(ak8Dijet))
      @@ (Name("ak8", "Dijet", "Eta") :> ArrayEta(ak8Dijet))
      @@ (Name("ak15", "Dijet", "Pt") :> ArrayPt(ak15Dijet))
      @@ (Name("ak15", "Dijet", "Mass") :> ArrayM(ak15Dijet))
      @@ (Name("ak15", "Dijet", "Eta") :> ArrayEta(ak15Dijet))
      @@ (Name("bb", "FatJet", "PtOverDijetPt") :> ArrayOverFloat(bbPt, DijetPt))
      @@ (Name("VV", "FatJet", "PtOverDijetPt") :> ArrayOverFloat(VVPt, DijetPt))
      @@ (Name("VV", "FatJet", "PtOverbbFatJetPt") :> ArrayOver(VVPt, bbPt))

\* the sample after one iteration: fields written over or added
DerivedSample(ev) == DerivedFields(ev) @@ ev

\* bbFatJet + VVFatJet and the ratios need 1-d operands of one length
DerivedShapesAgree(ev) ==
  Len(ev[Name("bb", "FatJet", "Pt")]) = Len(ev[Name("VV", "FatJet", "Pt")])

DerivedVars ==
  /\ pc = "derived"
  /\ LET key == keys[iter]
         ev == events[key]
     IN  /\ printed' = printed \o <<key>>
         /\ IF DerivedShapesAgree(ev)
            THEN /\ events' = [events EXCEPT ![key] = DerivedSample(ev)]
                 /\ iter' = IF iter = Len(keys) THEN 1 ELSE iter + 1
                 /\ pc' = IF iter = Len(keys) THEN "done" ELSE "derived"
                 /\ UNCHANGED raised
            ELSE /\ raised' = TRUE
                 /\ pc' = "raised"
                 /\ UNCHANGED <<events, iter>>
  /\ UNCHANGED <<policy_vars, gen_vars, call_vars>>

(***************************************************************************)
(* Inputs: the skimmed events of each sample                               *)
(***************************************************************************)
Jet(pt, phi, eta, msd) == [Pt |-> pt, Phi |-> phi, Eta |-> eta, Msd |-> msd]

\* a slot of a collection: a jet and its tagger score
Slot(jet, score) ==
  [Pt |-> jet.Pt, Phi |-> jet.Phi, Eta |-> jet.Eta, Msd |-> jet.Msd,
   Score |-> score]

\* the slot pad_val fills in for a missing jet
MissingSlot ==
  [Pt |-> PadKin, Phi |-> PadAngle, Eta |-> PadAngle, Msd |-> PadKin,
   Score |-> PadScore]

\* collection A jets
Jets8 == {Jet(200, 0, 0, 100), Jet(300, 5, 0, 120)}

\* collection B jets
Jets15 == {Jet(300, 10, 0, 90), Jet(200, 15, 0, 80), Jet(300, 200, 0, 110),
           Jet(200, 100, 0, 130), Jet(300, 0, 0, 95), Jet(200, 314, 0, 150),
           Jet(200, 80, 60, 85)}

\* tagger scores of a jet that is there
Scores == {50, 90}

\* the two slots of a collection hold two different jets; jets are padded
\* at the end, so a missing slot 0 has a missing slot 1
SlotPairs(jets) ==
  {<<Slot(j, s), Slot(k, t)>> :
     <<j, k>> \in {p \in jets \X jets : p[1] # p[2]}, <<s, t>> \in Scores \X Scores}
    \cup {<<Slot(j, s), MissingSlot>> : j \in jets, s \in Scores}
    \cup {<<MissingSlot, MissingSlot>>}

\* a generated Higgs boson
GenHiggs(phi, eta) == [Pt |-> 300, Phi |-> phi, Eta |-> eta, Mass |-> 125]

\* the truth record of a signal event: its two Higgs bosons and the
\* particle each one decays to
Gen(h1, c1, h2, c2) == [Higgs |-> <<h1, h2>>, Children |-> <<c1, c2>>]

\* H -> bb along the first collection-A jets and H -> ZZ at phi = 2.0
DefaultGen == Gen(GenHiggs(0, 0), B_PDGID, GenHiggs(200, 0), Z_PDGID)

\* the signal sample holds events with one H -> bb and one H -> VV, in
\* either order: the second record has H -> W-W+ first, just above -pi, and
\* H -> bb at phi = 2.0
GenSet == {DefaultGen, Gen(GenHiggs(-310, 0), -W_PDGID, GenHiggs(200, 0), -B_PDGID)}

Event(ak8, ak15) == [ak8 |-> ak8, ak15 |-> ak15, weight |-> 1, gen |-> DefaultGen]

EventSet == {Event(a, b) : a \in SlotPairs(Jets8), b \in SlotPairs(Jets15)}

\* events whose batches are taken at every length up to MaxN: a flip, no
\* overlap and ties won by slot 0, slot 1 leading in both collections with a
\* flip at Delta R = 0, an overlap whose other slot is closer, missing jets
CoreEvents ==
  {Event(<<Slot(Jet(200, 0, 0, 100), 90), Slot(Jet(300, 5, 0, 120), 50)>>,
         <<Slot(Jet(300, 10, 0, 90), 90), Slot(Jet(300, 200, 0, 110), 50)>>),
   Event(<<Slot(Jet(200, 0, 0, 100), 50), Slot(Jet(300, 5, 0, 120), 50)>>,
         <<Slot(Jet(300, 200, 0, 110), 90), Slot(Jet(200, 15, 0, 80), 90)>>),
   Event(<<Slot(Jet(300, 5, 0, 120), 50), Slot(Jet(200, 0, 0, 100), 90)>>,
         <<Slot(Jet(200, 100, 0, 130), 50), Slot(Jet(300, 0, 0, 95), 90)>>),
   Event(<<Slot(Jet(200, 0, 0, 100), 90), Slot(Jet(300, 5, 0, 120), 50)>>,
         <<Slot(Jet(200, 15, 0, 80), 90), Slot(Jet(300, 10, 0, 90), 50)>>),
   Event(<<MissingSlot, MissingSlot>>, <<MissingSlot, MissingSlot>>)}

RECURSIVE SeqsUpTo(_, _)
SeqsUpTo(S, n) ==
  IF n = 0 THEN {<<>>}
  ELSE LET shorter == SeqsUpTo(S, n - 1)
       IN  shorter \cup {Append(b, e) : b \in shorter, e \in S}

\* the batches of the core events, of every length up to MaxN
CoreBatches == SeqsUpTo(CoreEvents, MaxN)

\* the core events with each truth record
GenCoreEvents == {[e EXCEPT !.gen = g] : e \in CoreEvents, g \in GenSet}

\* the batches the varied sample may hold: the signal sample takes the core
\* events with each truth record, and every event of EventSet as a batch of
\* one as well
Batches(key) ==
  IF key = sig
  THEN {<<e>> : e \in EventSet} \cup SeqsUpTo(GenCoreEvents, MaxN)
  ELSE CoreBatches

SlotField(batch, coll, f) ==
  [r \in 1..Len(batch) |-> <<batch[r][coll][1][f], batch[r][coll][2][f]>>]

\* the mapping pickle.load(file)['skimmed_events'] of a batch (line 35)
Sample(batch) ==
  (Name("ak8", "FatJet", "Pt") :> SlotField(batch, "ak8", "Pt"))
  @@ (Name("ak8", "FatJet", "Phi") :> SlotField(batch, "ak8", "Phi"))
  @@ (Name("ak8", "FatJet", "Eta") :> SlotField(batch, "ak8", "Eta"))
  @@ (Name("ak8", "FatJet", "Msd") :> SlotField(batch, "ak8", "Msd"))
  @@ (Txbb :> SlotField(batch, "ak8", "Score"))
  @@ (Name("ak15", "FatJet", "Pt") :> SlotField(batch, "ak15", "Pt"))
  @@ (Name("ak15", "FatJet", "Phi") :> SlotField(batch, "ak15", "Phi"))
  @@ (Name("ak15", "FatJet", "Eta") :> SlotField(batch, "ak15", "Eta"))
  @@ (Name("ak15", "FatJet", "Msd") :> SlotField(batch, "ak15", "Msd"))
  @@ (Th4q :> SlotField(batch, "ak15", "Score"))
  @@ (Weight :> [r \in 1..Len(batch) |-> batch[r].weight])

GenHiggsField(batch, f) ==
  [r \in 1..Len(batch) |-> <<batch[r].gen.Higgs[1][f], batch[r].gen.Higgs[2][f]>>]

\* the decay products' fields, which the analysis builds vectors of and
\* reads no further
GenOtherField(batch) == [r \in 1..Len(batch) |-> <<0, 0>>]

\* the truth fields of the signal sample
GenFields(batch) ==
  (Name("Gen", "Higgs", "Pt") :> GenHiggsField(batch, "Pt"))
  @@ (Name("Gen", "Higgs", "Phi") :> GenHiggsField(batch, "Phi"))
  @@ (Name("Gen", "Higgs", "Eta") :> GenHiggsField(batch, "Eta"))
  @@ (Name("Gen", "Higgs", "Mass") :> GenHiggsField(batch, "Mass"))
  @@ (GenHiggsChildren :> [r \in 1..Len(batch) |-> batch[r].gen.Children])
  @@ [name \in {Name("Gen", obj, kin) :
                  obj \in {"bb", "VV", "4q"}, kin \in {"Pt", "Phi", "Eta", "Mass"}}
        |-> GenOtherField(batch)]

\* events[key] as loaded (line 35)
Loaded(key, batch) ==
  IF key = sig THEN GenFields(batch) @@ Sample(batch) ELSE Sample(batch)

KeySet == {keys[n] : n \in 1..Len(keys)}

\* the samples whose batch is varied: the first and the last of keys
FocusKeys == {keys[1], keys[Len(keys)]}

\* the batch of a sample other than the one that is varied
Filler(key) ==
  LET e == CHOOSE x \in CoreEvents : x.ak15[1].Phi = 10
      f == CHOOSE x \in CoreEvents : x.ak15[1].Phi = 200
  IN  CASE key = "V" -> <<e>>
        [] key = "Top" -> <<>>
        [] key = "QCD" -> <<>>
        [] key = "Data" -> <<f>>
        [] key = sig -> <<f, e>>

\* no statement of the script has run: nothing computed or printed
NothingComputed ==
  /\ iter = 1
  /\ bb_mask = <<>>
  /\ VV_mask = <<>>
  /\ VV_cand_overlap = <<>>
  /\ VV_not_cand_farther = <<>>
  /\ final_VV_mask = <<>>
  /\ raised = FALSE
  /\ printed = <<>>
  /\ bb_cut = <<>>
  /\ VV_cut = <<>>
  /\ bbVV_cut = <<>>
  /\ bb_cand_correct = <<>>
  /\ VV_cand_correct = <<>>
  /\ VV_leading_correct = <<>>
  /\ tot_events = 0
  /\ tot_bbVV_cut_events = 0
  /\ fractions = <<>>

\* the script before the hybrid policy loop
ScriptStart == pc = "policy" /\ NothingComputed

\* no library call is under way
NoCall == call = <<>> /\ ret = <<>>

Init ==
  /\ \E focus \in FocusKeys : \E b \in Batches(focus) :
       events = [key \in KeySet |->
                   Loaded(key, IF key = focus THEN b ELSE Filler(key))]
  /\ ScriptStart
  /\ NoCall

Next == HybridPolicy \/ GenMatching \/ DerivedVars

Spec == Init /\ [][Next]_vars

(***************************************************************************)
(* The script on ill-formed inputs: a sample whose mapping lacks a field   *)
(* the hybrid policy loop reads, or whose arrays differ in length          *)
(***************************************************************************)
\* the fields lines 66-86 read from events[key]
RequiredFields ==
  {Name(coll, "FatJet", kin) : coll \in {"ak8", "ak15"},
                               kin \in {"Pt", "Phi", "Eta", "Msd"}}
    \cup {Txbb, Th4q}

\* the ways the mapping of a sample is ill-formed: one field of lines 66-86
\* absent; `weight` one entry longer than the other arrays; the arrays of
\* the ak15 collection empty while the others have their rows
Faults ==
  {[kind |-> "missing", name |-> name] : name \in RequiredFields}
    \cup {[kind |-> "weight", name |-> Weight],
          [kind |-> "rows", name |-> Th4q]}

\* the mapping ev with the fault f
Faulty(ev, f) ==
  CASE f.kind = "missing" -> [name \in DOMAIN ev \ {f.name} |-> ev[name]]
    [] f.kind = "weight" -> [ev EXCEPT ![Weight] = Append(@, 1)]
    [] f.kind = "rows" ->
         [name \in DOMAIN ev |->
            IF StartsWithAk15FatJet(name) THEN <<>> ELSE ev[name]]

\* the batches a fault is applied to: numpy broadcasts an array of one
\* entry against any other, so the ak15 arrays are emptied only next to
\* arrays of two rows or more
FaultyBatches(f) ==
  IF f.kind = "rows" THEN {b \in CoreBatches : Len(b) >= 2} ELSE CoreBatches

InitFaulty ==
  /\ \E focus \in FocusKeys : \E f \in Faults : \E b \in FaultyBatches(f) :
       events = [key \in KeySet |->
                   IF key = focus THEN Faulty(Loaded(key, b), f)
                   ELSE Loaded(key, Filler(key))]
  /\ ScriptStart
  /\ NoCall

NextFaulty == HybridPolicy \/ GenMatching \/ DerivedVars

SpecFaulty == InitFaulty /\ [][NextFaulty]_vars

(***************************************************************************)
(* Library calls on their own: deltaR of the vector library, as lines      *)
(* 91-96 and 173-175 call it, and make_vector of utils.py                  *)
(***************************************************************************)
\* largest number of whole turns a direction's phi is away from [-pi, pi]
MaxTurns == 1

Direction(eta, phi) == [eta |-> eta, phi |-> phi]

\* pseudorapidities and azimuths of the directions: the edges of [-pi, pi],
\* values next to them, and values whole turns away; the fill value of a
\* missing jet
Directions ==
  {Direction(eta, phi + k * TwoPi) :
     eta \in {-150, 0, 60},
     phi \in {-Pi, -310, -100, 0, 10, 200, 310, Pi},
     k \in -MaxTurns..MaxTurns}
    \cup {Direction(PadAngle, PadAngle)}

DeltaRCalls == {[fn |-> "deltaR", a |-> a, b |-> b] : a, b \in Directions}

\* a.deltaR(b)
DeltaRCall ==
  /\ pc = "call"
  /\ call.fn = "deltaR"
  /\ ret' = DeltaR(call.a.eta, call.a.phi, call.b.eta, call.b.phi)
  /\ pc' = "returned"
  /\ UNCHANGED <<events, iter, policy_vars, raised, printed, gen_vars, call>>

(***************************************************************************)
(* utils.make_vector                                                       *)
(***************************************************************************)
\* the mask argument: None, or a boolean array of one or two dimensions
MaskNone == [some |-> FALSE, dims |-> 0, val |-> <<>>]
Mask(dims, val) == [some |-> TRUE, dims |-> dims, val |-> val]

\* arr[mask]: a 1-d mask selects along the first axis, a 2-d mask selects
\* the entries of an (N,2) array in row-major order
MaskIndex(arr, mask) ==
  IF mask.dims = 1 THEN RowSelect(arr, mask.val) ELSE BoolIndex(arr, mask.val)

\* mutant: the branch with a mask takes {name}Mass when the mapping has it
make_vector_MaskedMass(evs, name, mask) ==
  IF ~mask.some
  THEN VectorArray(evs[Name(name[1], name[2], "Pt")],
                   evs[Name(name[1], name[2], "Phi")],
                   evs[Name(name[1], name[2], "Eta")],
                   IF Name(name[1], name[2], "Msd") \in DOMAIN evs
                   THEN evs[Name(name[1], name[2], "Msd")]
                   ELSE evs[Name(name[1], name[2], "Mass")])
  ELSE VectorArray(MaskIndex(evs[Name(name[1], name[2], "Pt")], mask),
                   MaskIndex(evs[Name(name[1], name[2], "Phi")], mask),
                   MaskIndex(evs[Name(name[1], name[2], "Eta")], mask),
                   IF Name(name[1], name[2], "Mass") \in DOMAIN evs
                   THEN MaskIndex(evs[Name(name[1], name[2], "Mass")], mask)
                   ELSE MaskIndex(evs[Name(name[1], name[2], "Msd")], mask))

\* make_vector(events, name, mask=None) (utils.py lines 5-30)
make_vector(evs, name, mask) ==
  IF ~mask.some
  THEN VectorArray(evs[Name(name[1], name[2], "Pt")],
                   evs[Name(name[1], name[2], "Phi")],
                   evs[Name(name[1], name[2], "Eta")],
                   IF Name(name[1], name[2], "Msd") \in DOMAIN evs
                   THEN evs[Name(name[1], name[2], "Msd")]
                   ELSE evs[Name(name[1], name[2], "Mass")])
  ELSE VectorArray(MaskIndex(evs[Name(name[1], name[2], "Pt")], mask),
                   MaskIndex(evs[Name(name[1], name[2], "Phi")], mask),
                   MaskIndex(evs[Name(name[1], name[2], "Eta")], mask),
                   IF Name(name[1], name[2], "Msd") \in DOMAIN evs
                   THEN MaskIndex(evs[Name(name[1], name[2], "Msd")], mask)
                   ELSE MaskIndex(evs[Name(name[1], name[2], "Mass")], mask))

\* the batches of the mappings make_vector is called on
VectorBatches ==
  SeqsUpTo({e \in CoreEvents : e.ak15[1].Phi \in {10, 200}}, MaxN)

\* a soft-drop mass field for the truth Higgs bosons, which the loaded
\* samples do not have
GenHiggsMsd(batch) ==
  Name("Gen", "Higgs", "Msd") :> [r \in 1..Len(batch) |-> <<120, 130>>]

\* the mappings: the signal sample after its hybrid-policy iteration, with
\* GenHiggsMass alone or with GenHiggsMsd next to it
VectorMappings ==
  {PolicyRun(Loaded(sig, b)).sample : b \in VectorBatches}
    \cup {GenHiggsMsd(b) @@ PolicyRun(Loaded(sig, b)).sample : b \in VectorBatches}

\* every boolean array of n entries
BoolArrays(n) == [1..n -> BOOLEAN]

\* the masks for the arrays of name in evs: None, every 1-d boolean array
\* over the rows and, for (N,2) arrays, every (N,2) boolean array
Masks(evs, name) ==
  LET n == Len(evs[Name(name[1], name[2], "Pt")])
  IN  {MaskNone} \cup {Mask(1, m) : m \in BoolArrays(n)}
        \cup (IF name[1] = "bb" THEN {}
              ELSE {Mask(2, m) : m \in [1..n -> BoolArrays(2)]})

\* the names make_vector is called with: (N,2) fields with Msd, 1-d fields
\* with Msd, (N,2) fields with Mass
VectorNames == {<<"ak8", "FatJet">>, <<"bb", "FatJet">>, <<"Gen", "Higgs">>}

MakeVectorCalls ==
  UNION {{[fn |-> "make_vector", evs |-> evs, name |-> name, mask |-> mask] :
            mask \in Masks(evs, name)} :
           evs \in VectorMappings, name \in VectorNames}

\* make_vector(events, name, mask)
MakeVectorCall ==
  /\ pc = "call"
  /\ call.fn = "make_vector"
  /\ ret' = make_vector(call.evs, call.name, call.mask)
  /\ pc' = "returned"
  /\ UNCHANGED <<events, iter, policy_vars, raised, printed, gen_vars, call>>

(***************************************************************************)
(* utils.getParticles                                                      *)
(***************************************************************************)
\* what a Python function returns: a value, or None when it ends without
\* a return statement
Returned(val) == [none |-> FALSE, val |-> val]
None == [none |-> TRUE, val |-> <<>>]

\* getParticles(particle_list, particle_type) (utils.py lines 33-49): the
\* branches for 'b' and 'V'; any other type falls off the end of the function
getParticles(particle_list, particle_type) ==
  IF particle_type = "b"
  THEN Returned(AbsEquals(particle_list, B_PDGID))
  ELSE IF particle_type = "V"
  THEN Returned(BoolPlus(AbsEquals(particle_list, W_PDGID),
                         AbsEquals(particle_list, Z_PDGID)))
  ELSE None

\* the pdgIds of the children of the two Higgs bosons of an event
ChildrenRows ==
  {<<c1, c2>> : c1, c2 \in {-W_PDGID, B_PDGID, Z_PDGID, HIGGS_PDGID}}

\* the particle types the docstring of getParticles lists
ParticleTypes == {"b", "V", "H"}

GetParticlesCalls ==
  {[fn |-> "getParticles", particle_list |-> l, particle_type |-> t] :
     l \in SeqsUpTo(ChildrenRows, MaxN), t \in ParticleTypes}

\* getParticles(particle_list, particle_type)
GetParticlesCall ==
  /\ pc = "call"
  /\ call.fn = "getParticles"
  /\ ret' = getParticles(call.particle_list, call.particle_type)
  /\ pc' = "returned"
  /\ UNCHANGED <<events, iter, policy_vars, raised, printed, gen_vars, call>>

Calls == DeltaRCalls \cup MakeVectorCalls \cup GetParticlesCalls

InitCalls ==
  /\ \E c \in Calls : call = c
  /\ ret = <<>>
  /\ pc = "call"
  /\ events = <<>>
  /\ NothingComputed

NextCalls == DeltaRCall \/ MakeVectorCall \/ GetParticlesCall

SpecCalls == InitCalls /\ [][NextCalls]_vars

(***************************************************************************)
(* TTScaleFactorsSkimmer.process: the event weights, the Lund-plane scale  *)
(* factors and the selection (TTScaleFactorsSkimmer.py lines 152-162 and   *)
(* 432-479).  Scale factors are integers in hundredths.                    *)
(***************************************************************************)
\* LUMI = {"2016": 38000, "2017": 40000, "2018": 60000}
LUMI == ("2016" :> 38000) @@ ("2017" :> 40000) @@ ("2018" :> 60000)

\* the cross-section table handed to the constructor (self.XSECS, in pb)
XSECS == ("TTToSemiLeptonic" :> 3) @@ ("QCD_HT1000to1500" :> 7)

\* the datasets whose name contains "JetHT" (isData = "JetHT" in dataset)
JetHTDatasets == {"JetHT_Run2017B"}
Datasets == {"TTToSemiLeptonic", "QCD_HT1000to1500", "ST_tW_top"}
              \cup JetHTDatasets

\* top_matchings = ["top_matched", "w_matched", "unmatched"]
top_matchings == <<"top_matched", "w_matched", "unmatched">>
MatchingKeys == {top_matchings[i] : i \in 1..Len(top_matchings)}

\* np.sign
Sign(x) == IF x > 0 THEN 1 ELSE IF x < 0 THEN -1 ELSE 0

\* np.zeros(n) and np.ones(n)
Zeros(n) == [i \in 1..n |-> 0]
Ones(n) == [i \in 1..n |-> 1]

\* arr[mask] for a boolean mask of the length of arr
RECURSIVE BoolIndexed(_, _)
BoolIndexed(arr, mask) ==
  IF arr = <<>> THEN <<>>
  ELSE (IF Head(mask) THEN <<Head(arr)>> ELSE <<>>)
         \o BoolIndexed(Tail(arr), Tail(mask))

\* ttbar_scale_factor_matching(events, ...): one array per matching, 1 for
\* the events of that matching (the function is not among the sources; an
\* event carries the matching it is given)
ttbar_scale_factor_matching(evs) ==
  [key \in MatchingKeys |->
     [i \in 1..Len(evs) |-> IF evs[i].matching = key THEN 1 ELSE 0]]

\* lund_SFs(events, ...): the nominal scale factor and its error of each of
\* the events handed in (lines 64-140; an event carries the values the
\* lookup tables give for its Lund plane)
lund_SFs(evs) ==
  <<[i \in 1..Len(evs) |-> evs[i].sf_nom],
    [i \in 1..Len(evs) |-> evs[i].sf_err]>>

\* lines 432-450: the weights of the events of a dataset
Weights(evs, year, dataset, isData) ==
  IF isData
  THEN "weight" :> Ones(Len(evs))
  ELSE LET genWeight == [i \in 1..Len(evs) |-> evs[i].genWeight] IN
       ("genWeight" :> genWeight)
       @@ ("weight" :>
             IF dataset \in DOMAIN XSECS
             THEN [i \in 1..Len(evs) |->
                     Sign(genWeight[i]) * XSECS[dataset] * LUMI[year]]
             ELSE [i \in 1..Len(evs) |-> Sign(genWeight[i])])

\* lines 452-474: the matchings and the Lund-plane scale factors; line 470
\* stores val, so the zero-filled arr is dropped
LundSFs(evs, dataset) ==
  IF dataset = "TTToSemiLeptonic"
  THEN LET match_dict == ttbar_scale_factor_matching(evs)
           top_matched ==
             [i \in 1..Len(evs) |-> match_dict["top_matched"][i] # 0]
           sf == lund_SFs(BoolIndexed(evs, top_matched))
       IN  match_dict @@ ("lp_sf" :> sf[1]) @@ ("lp_sf_err" :> sf[2])
  ELSE [key \in MatchingKeys |-> Ones(Len(evs))]
       @@ ("lp_sf" :> Zeros(Len(evs))) @@ ("lp_sf_err" :> Zeros(Len(evs)))

\* what a call leaves: the value it returns, or the exception it raises
Result(val) == [raised |-> "", val |-> val]
Raises(exc) == [raised |-> exc, val |-> <<>>]

\* lines 476-479 on the arrays of lines 432-474: every array indexed by the
\* selection mask; numpy raises an IndexError on a boolean index of another
\* length
SkimmedArrays(evs, year, dataset, isData) ==
  LET skimmed_events ==
        LundSFs(evs, dataset) @@ Weights(evs, year, dataset, isData)
      selection == [i \in 1..Len(evs) |-> evs[i].selected]
  IN  IF \E key \in DOMAIN skimmed_events :
           Len(skimmed_events[key]) # Len(selection)
      THEN Raises("IndexError")
      ELSE Result([key \in DOMAIN skimmed_events |->
                     BoolIndexed(skimmed_events[key], selection)])

\* the attributes of a TTScaleFactorsSkimmer: the names of the class body
\* (lines 162-220, 253-282) and those __init__ assigns (lines 226-251)
SelfAttributes ==
  {"LUMI", "HLTs", "skim_vars", "muon_selection", "ak8_jet_selection",
   "ak4_jet_selection", "met_selection", "lepW_selection", "num_jets",
   "top_matchings", "to_pandas", "dump_table", "accumulator", "process",
   "postprocess",
   "XSECS", "corrections", "metfilters", "tagger_resources_path",
   "ratio_nom_lookup", "ratio_nom_errs_lookup", "_accumulator"}

\* the attributes of self the met filters read (lines 380-381)
MetFilterReads == {"isData", "_metfilters"}

\* process(events) (lines 284-501): isData is the local of line 292; the met
\* filters of lines 379-383 read self.isData and self._metfilters, and an
\* attribute self does not have raises an AttributeError; then the weights,
\* the scale factors and the selection
process(evs, year, dataset) ==
  LET isData == dataset \in JetHTDatasets IN
  IF ~(MetFilterReads \subseteq SelfAttributes)
  THEN Raises("AttributeError")
  ELSE SkimmedArrays(evs, year, dataset, isData)

\* the events of a chunk: the generator weight (not read for data), the
\* matching, the Lund-plane scale factor and whether the event is selected
GenWeights == {-2, 0, 3}
LundValues == {<<90, 5>>, <<110, 10>>}
SkimmerEvents ==
  {[genWeight |-> g, matching |-> m, sf_nom |-> sf[1], sf_err |-> sf[2],
    selected |-> s] :
     g \in GenWeights, m \in MatchingKeys, sf \in LundValues,
     s \in BOOLEAN}

\* the calls with chunks of up to n events
ProcessCalls(n) ==
  {[fn |-> "process", events |-> evs, year |-> y, dataset |-> d] :
     evs \in SeqsUpTo(SkimmerEvents, n), y \in DOMAIN LUMI, d \in Datasets}

\* TTScaleFactorsSkimmer.process(events)
Process ==
  /\ pc = "call"
  /\ call.fn = "process"
  /\ ret' = process(call.events, call.year, call.dataset)
  /\ pc' = "returned"
  /\ UNCHANGED <<events, iter, policy_vars, raised, printed, gen_vars, call>>

InitSkimmer ==
  /\ \E c \in ProcessCalls(MaxN) : call = c
  /\ ret = <<>>
  /\ pc = "call"
  /\ events = <<>>
  /\ NothingComputed

NextSkimmer == Process

SpecSkimmer == InitSkimmer /\ [][NextSkimmer]_vars

(***************************************************************************)
(* run.py: get_fileset and main (lines 71-104, 117-207, 229-283)           *)
(***************************************************************************)
\* the largest number of files of a subsample
MaxFiles == 3

\* Python's seq[start:stop] and seq[start:]: a negative index counts from
\* the end, and an index beyond either end is clamped
SliceIndex(i, n) ==
  IF i < 0 THEN (IF n + i < 0 THEN 0 ELSE n + i)
  ELSE IF i > n THEN n ELSE i
Slice_Inclusive(seq, start, stop) ==
  SubSeq(seq, SliceIndex(start, Len(seq)) + 1,
         SliceIndex(stop + 1, Len(seq)))
Slice(seq, start, stop) ==
  SubSeq(seq, SliceIndex(start, Len(seq)) + 1, SliceIndex(stop, Len(seq)))
SliceFrom(seq, start) ==
  SubSeq(seq, SliceIndex(start, Len(seq)) + 1, Len(seq))

\* the elements of a list
Elements(seq) == {seq[i] : i \in 1..Len(seq)}

\* f"{year}_{subsample}"
FilesetKey(year, subsample) == year \o "_" \o subsample

\* "root://cmsxrootd.fnal.gov//" + fname
Redirected(fname) == "root://cmsxrootd.fnal.gov//" \o fname

\* the index files of a year (json files, not among the sources):
\* full_fileset[year] of data/pfnanoindex_{year}.json and of
\* data/singlemuon_pfnanoindex_{year}.json, with fnames the files of one of
\* the subsamples
PfNanoIndex(year, fnames) ==
  ("HH" :> (("GluGluToHHTobbVV" :> fnames)
            @@ ("VBF_HHTobbVV" :> <<"vbf/1.root">>)))
  @@ ("QCD" :> ("QCD_HT1000to1500" :> <<"qcd/1.root", "qcd/2.root">>))
  @@ ("2017_TTbar" :> ("TTbar" :> <<"tt/1.root">>))
SingleMuonIndex(year, fnames) ==
  ("SingleMu" \o year) :> (("SingleMuon_Run" \o year \o "B") :> fnames)

\* lines 85-99: the file set of one sample
SampleFileset(sample_set, year, subsamples, starti, endi) ==
  LET get_subsamples == DOMAIN sample_set \cap Elements(subsamples)
      kept == IF get_subsamples # {} THEN get_subsamples
              ELSE DOMAIN sample_set
  IN  [key \in {FilesetKey(year, subsample) : subsample \in kept} |->
         LET subsample ==
               CHOOSE sub \in kept : FilesetKey(year, sub) = key
             fnames ==
               IF endi < 0 THEN SliceFrom(sample_set[subsample], starti)
               ELSE Slice(sample_set[subsample], starti, endi)
         IN  [i \in 1..Len(fnames) |-> Redirected(fnames[i])]]

\* the loop of lines 82-102: fileset = {**fileset, **sample_fileset}
RECURSIVE SamplesFileset(_, _, _, _, _, _, _)
SamplesFileset(fileset, full_fileset, samples, year, subsamples, starti, endi) ==
  IF samples = <<>> THEN fileset
  ELSE SamplesFileset(
         SampleFileset(full_fileset[Head(samples)], year, subsamples,
                       starti, endi) @@ fileset,
         full_fileset, Tail(samples), year, subsamples, starti, endi)

\* get_fileset(processor, year, samples, subsamples, starti, endi) with the
\* index files of fnames; a sample that the index does not have is a KeyError
get_fileset(processor, year, samples, subsamples, starti, endi, fnames) ==
  LET samples_ == IF processor = "trigger" THEN <<"SingleMu" \o year>>
                  ELSE samples
      full_fileset == IF processor = "trigger"
                      THEN SingleMuonIndex(year, fnames)
                      ELSE PfNanoIndex(year, fnames)
  IN  IF \E i \in 1..Len(samples_) : samples_[i] \notin DOMAIN full_fileset
      THEN Raises("KeyError")
      ELSE Result(SamplesFileset(<<>>, full_fileset, samples_, year,
                                 subsamples, starti, endi))

\* main(args): the file set the runner is called with (lines 134-140, 169-171
\* and 205); the dask branch looks up every name of args.samples in fileset
main(args, fnames) ==
  LET fileset ==
        IF Len(args.files) = 0
        THEN get_fileset(args.processor, args.year, args.samples,
                         args.subsamples, args.starti, args.endi, fnames)
        ELSE Result(FilesetKey(args.year, args.files_name) :> args.files)
  IN  IF fileset.raised # "" THEN fileset
      ELSE IF args.executor = "dask"
      THEN IF \E i \in 1..Len(args.samples) :
                args.samples[i] \notin DOMAIN fileset.val
           THEN Raises("KeyError")
           ELSE Result([key \in Elements(args.samples) |-> fileset.val[key]])
      ELSE Result(fileset.val)

\* the command-line arguments (lines 229-283)
Processors == {"trigger", "skimmer", "input"}
Executors == {"futures", "iterative", "dask"}
Years == {"2017", "2018"}
SampleLists == {<<>>, <<"HH">>, <<"HH", "QCD">>, <<"2017_TTbar">>, <<"ZZ">>}
SubsampleLists ==
  {<<>>, <<"GluGluToHHTobbVV">>, <<"VBF_HHTobbVV", "QCD_HT1000to1500">>}
FileArgs == {<<>>, <<"local/1.root">>}

\* the files of the subsample under study
FileLists ==
  {[i \in 1..n |-> "hh/" \o ToString(i) \o ".root"] : n \in 0..MaxFiles}

GetFilesetCalls ==
  {[fn |-> "get_fileset", processor |-> p, year |-> y, samples |-> s,
    subsamples |-> ss, starti |-> a, endi |-> b, fnames |-> f] :
     p \in Processors, y \in Years, s \in SampleLists, ss \in SubsampleLists,
     a \in 0..(MaxFiles + 1), b \in -1..(MaxFiles + 1), f \in FileLists}

MainCalls ==
  {[fn |-> "main",
    args |-> [processor |-> c.processor, year |-> c.year,
              samples |-> c.samples, subsamples |-> c.subsamples,
              starti |-> c.starti, endi |-> c.endi, files |-> fs,
              files_name |-> "files", executor |-> e],
    fnames |-> c.fnames] :
     c \in GetFilesetCalls, fs \in FileArgs, e \in Executors}

\* get_fileset(processor, year, samples, subsamples, starti, endi)
GetFilesetCall ==
  /\ pc = "call"
  /\ call.fn = "get_fileset"
  /\ ret' = get_fileset(call.processor, call.year, call.samples,
                        call.subsamples, call.starti, call.endi, call.fnames)
  /\ pc' = "returned"
  /\ UNCHANGED <<events, iter, policy_vars, raised, printed, gen_vars, call>>

\* main(args)
MainCall ==
  /\ pc = "call"
  /\ call.fn = "main"
  /\ ret' = main(call.args, call.fnames)
  /\ pc' = "returned"
  /\ UNCHANGED <<events, iter, policy_vars, raised, printed, gen_vars, call>>

InitRun ==
  /\ \E c \in GetFilesetCalls \cup MainCalls : call = c
  /\ ret = <<>>
  /\ pc = "call"
  /\ events = <<>>
  /\ NothingComputed

NextRun == GetFilesetCall \/ MainCall

SpecRun == InitRun /\ [][NextRun]_vars

(***************************************************************************)
(* Vocabulary of the properties                                            *)
(***************************************************************************)
\* the hybrid-policy iteration of a sample has run
HasCandidates(key) == Name("bb", "FatJet", "Pt") \in DOMAIN events[key]

\* the derived-vars iteration of a sample has run
HasDerived(key) == Name("", "Dijet", "Pt") \in DOMAIN events[key]

\* the number of samples whose hybrid-policy iteration has run to its end
NumDone == Cardinality({n \in 1..Len(keys) : HasCandidates(keys[n])})

\* the script's mask variables hold the masks of some sample: the last one
\* whose hybrid-policy iteration has run, or the one it raised on
MasksSet == NumDone > 0 \/ pc = "raised"
LastKey ==
  IF pc = "raised" /\ NumDone < Len(keys) THEN keys[NumDone + 1]
  ELSE keys[NumDone]

NEvents(key) == Len(events[key][Weight])

InputNames == DOMAIN Sample(<<>>)
GenNames == DOMAIN GenFields(<<>>)
Ak8Vars == {var \in InputNames : StartsWithAk8FatJet(var)}
Ak15Vars == {var \in InputNames : StartsWithAk15FatJet(var)}

\* a row of a mask selects exactly one of the two slots
OneHot(row) == Len(row) = 2 /\ (row[1] # row[2])

\* the slots of an event: leading by score (slot 0 on a tie) and the other one
LeadSlot(key, scorevar, r) ==
  IF events[key][scorevar][r][1] >= events[key][scorevar][r][2] THEN 1 ELSE 2
OtherSlot(c) == 3 - c

\* Delta R in event r between slot a of collection A and slot b of collection B
SlotDist(key, r, a, b) ==
  DeltaR(events[key][Name("ak8", "FatJet", "Eta")][r][a],
         events[key][Name("ak8", "FatJet", "Phi")][r][a],
         events[key][Name("ak15", "FatJet", "Eta")][r][b],
         events[key][Name("ak15", "FatJet", "Phi")][r][b])

\* d_cand and d_other of event r
DCand(key, r) == SlotDist(key, r, LeadSlot(key, Txbb, r), LeadSlot(key, Th4q, r))
DOther(key, r) ==
  SlotDist(key, r, LeadSlot(key, Txbb, r), OtherSlot(LeadSlot(key, Th4q, r)))

\* the overlap-resolution condition of event r: both comparisons strict
FlipCondition(key, r) ==
  DRLessNum(DCand(key, r), dR) /\ DRLess(DCand(key, r), DOther(key, r))

\* every bb* / VV* field of event r holds the value of slot c
BbIs(key, r, c) ==
  \A var \in Ak8Vars :
    /\ bbNewVar(var) \in DOMAIN events[key]
    /\ Len(events[key][bbNewVar(var)]) = NEvents(key)
    /\ events[key][bbNewVar(var)][r] = events[key][var][r][c]
VVIs(key, r, c) ==
  \A var \in Ak15Vars :
    /\ VVNewVar(var) \in DOMAIN events[key]
    /\ Len(events[key][VVNewVar(var)]) = NEvents(key)
    /\ events[key][VVNewVar(var)][r] = events[key][var][r][c]

\* the two collection-B slots of event r differ in some field
VVSlotsDiffer(key, r) ==
  \E var \in Ak15Vars : events[key][var][r][1] # events[key][var][r][2]

\* the mask variables have one row per event of the last sample
MasksShaped ==
  /\ Len(bb_mask) = NEvents(LastKey)
  /\ Len(VV_mask) = NEvents(LastKey)
  /\ Len(final_VV_mask) = NEvents(LastKey)
  /\ Len(VV_cand_overlap) = NEvents(LastKey)
  /\ Len(VV_not_cand_farther) = NEvents(LastKey)

(***************************************************************************)
(* C1-C2: candidate selection                                              *)
(***************************************************************************)
\* C1: after an iteration of the hybrid policy over a batch, bb_mask and
\* VV_mask have one row per event and every row has exactly one true slot
\* out of the two.
C1_MaskExclusivity ==
  MasksSet =>
    /\ Len(bb_mask) = NEvents(LastKey)
    /\ Len(VV_mask) = NEvents(LastKey)
    /\ \A r \in 1..NEvents(LastKey) : OneHot(bb_mask[r]) /\ OneHot(VV_mask[r])

\* a batch of two events or more whose rows select different slots
C1_Witness ==
  /\ MasksSet
  /\ NEvents(LastKey) >= 2
  /\ \E r, q \in 1..NEvents(LastKey) :
       /\ bb_mask[r] = <<TRUE, FALSE>> /\ bb_mask[q] = <<FALSE, TRUE>>
       /\ VV_mask[r] = <<TRUE, FALSE>> /\ VV_mask[q] = <<FALSE, TRUE>>

\* C2: in each collection the mask selects the slot with the strictly
\* greater score, and slot 0 (not slot 1) when the two scores are equal,
\* the fill value of a missing jet's score included.
C2_TieBreak ==
  MasksSet =>
    /\ Len(bb_mask) = NEvents(LastKey)
    /\ Len(VV_mask) = NEvents(LastKey)
    /\ \A r \in 1..NEvents(LastKey) :
         LET a == events[LastKey][Txbb][r]
             b == events[LastKey][Th4q][r]
         IN  /\ a[1] > a[2] => bb_mask[r] = <<TRUE, FALSE>>
             /\ a[2] > a[1] => bb_mask[r] = <<FALSE, TRUE>>
             /\ a[1] = a[2] => bb_mask[r] = <<TRUE, FALSE>>
             /\ b[1] > b[2] => VV_mask[r] = <<TRUE, FALSE>>
             /\ b[2] > b[1] => VV_mask[r] = <<FALSE, TRUE>>
             /\ b[1] = b[2] => VV_mask[r] = <<TRUE, FALSE>>

\* an event whose scores are all the fill value, next to one with a tie of
\* real scores
C2_Witness ==
  /\ MasksSet
  /\ \E r, q \in 1..NEvents(LastKey) :
       /\ events[LastKey][Txbb][r] = <<PadScore, PadScore>>
       /\ events[LastKey][Th4q][r] = <<PadScore, PadScore>>
       /\ bb_mask[r] = <<TRUE, FALSE>> /\ VV_mask[r] = <<TRUE, FALSE>>
       /\ events[LastKey][Th4q][q][1] = events[LastKey][Th4q][q][2]
       /\ events[LastKey][Th4q][q][1] # PadScore
       /\ VV_mask[q] = <<TRUE, FALSE>>

(***************************************************************************)
(* C3-C7, C10: overlap resolution                                          *)
(***************************************************************************)
\* C3: in every event the final VV candidate is collection B's non-leading
\* slot if and only if d_cand < 1.0 and d_other > d_cand, both strict; in
\* every other case it is the leading-by-score slot.
C3_OverlapRule ==
  /\ \A key \in KeySet :
       HasCandidates(key) =>
         \A r \in 1..NEvents(key) :
           IF FlipCondition(key, r)
           THEN VVIs(key, r, OtherSlot(LeadSlot(key, Th4q, r)))
           ELSE VVIs(key, r, LeadSlot(key, Th4q, r))
  /\ MasksSet =>
       /\ MasksShaped
       /\ \A r \in 1..NEvents(LastKey) :
            /\ (final_VV_mask[r] # VV_mask[r]) <=> FlipCondition(LastKey, r)
            /\ VV_mask[r][LeadSlot(LastKey, Th4q, r)]

\* an event with d_cand exactly 1.0 and a farther other slot that keeps its
\* leading slot, one with d_other = d_cand < 1.0 that keeps it too, and one
\* that flips
C3_Witness ==
  /\ pc = "done"
  /\ \E key \in KeySet : \E r \in 1..NEvents(key) :
       /\ DCand(key, r) = [deta |-> 0, dphi |-> dR]
       /\ DRLess(DCand(key, r), DOther(key, r))
       /\ VVSlotsDiffer(key, r)
       /\ VVIs(key, r, LeadSlot(key, Th4q, r))
  /\ \E key \in KeySet : \E r \in 1..NEvents(key) :
       /\ FlipCondition(key, r)
       /\ VVIs(key, r, OtherSlot(LeadSlot(key, Th4q, r)))

\* a second boundary: d_other = d_cand below the threshold keeps the leading slot
C3_WitnessEqual ==
  \E key \in KeySet : \E r \in 1..NEvents(key) :
    /\ HasCandidates(key)
    /\ DRLessNum(DCand(key, r), dR)
    /\ ~DRLess(DCand(key, r), DOther(key, r))
    /\ ~DRLess(DOther(key, r), DCand(key, r))
    /\ VVSlotsDiffer(key, r)
    /\ VVIs(key, r, LeadSlot(key, Th4q, r))

\* C4: after overlap resolution final_VV_mask has one row per event with
\* exactly one true slot out of two, Delta R = 0 and missing-jet fills
\* included, the VV* fields have one entry per event, and nothing raises.
C4_FlipKeepsOneHot ==
  /\ ~raised
  /\ MasksSet =>
       /\ Len(final_VV_mask) = NEvents(LastKey)
       /\ Len(VV_mask) = NEvents(LastKey)
       /\ \A r \in 1..NEvents(LastKey) :
            /\ OneHot(final_VV_mask[r])
            /\ OneHot(VV_mask[r])
            /\ final_VV_mask[r] \in {VV_mask[r], <<~VV_mask[r][1], ~VV_mask[r][2]>>}
  /\ \A key \in KeySet :
       HasCandidates(key) =>
         \A var \in Ak15Vars :
           Len(events[key][VVNewVar(var)]) = NEvents(key)

\* a batch with a flipped event at Delta R = 0 and an event of missing jets
C4_Witness ==
  /\ MasksSet
  /\ MasksShaped
  /\ \E r, q \in 1..NEvents(LastKey) :
       /\ DCand(LastKey, r) = [deta |-> 0, dphi |-> 0]
       /\ final_VV_mask[r] # VV_mask[r]
       /\ OneHot(final_VV_mask[r])
       /\ events[LastKey][Name("ak15", "FatJet", "Eta")][q] = <<PadAngle, PadAngle>>
       /\ OneHot(final_VV_mask[q])

\* C5: every bb* field of every event is the value of collection A's
\* leading-by-score slot, whether or not the VV candidate was flipped.
C5_BbNeverOverridden ==
  \A key \in KeySet :
    HasCandidates(key) =>
      \A r \in 1..NEvents(key) : BbIs(key, r, LeadSlot(key, Txbb, r))

\* a flipped event whose bb candidate is slot 1 and whose final VV
\* candidate is slot 0
C5_Witness ==
  \E key \in KeySet : \E r \in 1..NEvents(key) :
    /\ HasCandidates(key)
    /\ FlipCondition(key, r)
    /\ LeadSlot(key, Txbb, r) = 2
    /\ LeadSlot(key, Th4q, r) = 2
    /\ VVIs(key, r, 1)
    /\ BbIs(key, r, 2)

\* the geometry of P4 / P5 in event r: bb candidate at (0, 0), leading VV
\* slot at (0, 0.1), other VV slot at (0, phi)
ConcreteCase(key, r, phi) ==
  LET b == LeadSlot(key, Txbb, r)
      v == LeadSlot(key, Th4q, r)
  IN  /\ events[key][Name("ak8", "FatJet", "Eta")][r][b] = 0
      /\ events[key][Name("ak8", "FatJet", "Phi")][r][b] = 0
      /\ events[key][Name("ak15", "FatJet", "Eta")][r][v] = 0
      /\ events[key][Name("ak15", "FatJet", "Phi")][r][v] = 10
      /\ events[key][Name("ak15", "FatJet", "Eta")][r][OtherSlot(v)] = 0
      /\ events[key][Name("ak15", "FatJet", "Phi")][r][OtherSlot(v)] = phi

\* event r of the last sample was flipped / was left alone, as the script's
\* variables record it
FlipRecorded(r) ==
  /\ VV_cand_overlap[r] /\ VV_not_cand_farther[r]
  /\ final_VV_mask[r] # VV_mask[r]
NoFlipRecorded(r) ==
  /\ ~(VV_cand_overlap[r] /\ VV_not_cand_farther[r])
  /\ final_VV_mask[r] = VV_mask[r]

\* C6: with the bb candidate at (0, 0), the leading VV slot at (0, 0.1) and
\* the other VV slot at (0, 2.0), the flip is true and the final VV
\* candidate is the non-leading slot.
C6_FlipCase ==
  /\ \A key \in KeySet :
       HasCandidates(key) =>
         \A r \in 1..NEvents(key) :
           ConcreteCase(key, r, 200) =>
             /\ VVIs(key, r, OtherSlot(LeadSlot(key, Th4q, r)))
             /\ ~VVIs(key, r, LeadSlot(key, Th4q, r))
  /\ MasksSet =>
       /\ MasksShaped
       /\ \A r \in 1..NEvents(LastKey) :
            ConcreteCase(LastKey, r, 200) => FlipRecorded(r)

C6_Witness ==
  /\ MasksSet /\ MasksShaped
  /\ \E r \in 1..NEvents(LastKey) :
       /\ ConcreteCase(LastKey, r, 200)
       /\ FlipRecorded(r)
       /\ VVIs(LastKey, r, OtherSlot(LeadSlot(LastKey, Th4q, r)))

\* C7 as stated: with the other VV slot at (0, 0.15) instead, the flip is
\* false and the final VV candidate is the leading-by-score slot.
C7_NoFlipCase_Original ==
  /\ \A key \in KeySet :
       HasCandidates(key) =>
         \A r \in 1..NEvents(key) :
           ConcreteCase(key, r, 15) => VVIs(key, r, LeadSlot(key, Th4q, r))
  /\ MasksSet =>
       /\ MasksShaped
       /\ \A r \in 1..NEvents(LastKey) :
            ConcreteCase(LastKey, r, 15) => NoFlipRecorded(r)

\* C7, amended: with the bb candidate at (0, 0), the leading VV slot at
\* (0, 0.1) and the other VV slot at (0, 0.15), d_other = 0.15 exceeds
\* d_cand = 0.1 < 1.0, so the flip is true and the final VV candidate is
\* the non-leading slot.
C7_NoFlipCase_Amended ==
  /\ \A key \in KeySet :
       HasCandidates(key) =>
         \A r \in 1..NEvents(key) :
           ConcreteCase(key, r, 15) =>
             /\ VVIs(key, r, OtherSlot(LeadSlot(key, Th4q, r)))
             /\ ~VVIs(key, r, LeadSlot(key, Th4q, r))
  /\ MasksSet =>
       /\ MasksShaped
       /\ \A r \in 1..NEvents(LastKey) :
            ConcreteCase(LastKey, r, 15) => FlipRecorded(r)

C7_Witness ==
  /\ MasksSet /\ MasksShaped
  /\ \E r \in 1..NEvents(LastKey) :
       /\ ConcreteCase(LastKey, r, 15)
       /\ DOther(LastKey, r) = [deta |-> 0, dphi |-> 15]
       /\ FlipRecorded(r)

(***************************************************************************)
(* C8-C9: batches and events                                               *)
(***************************************************************************)
\* the input fields of the events lo..hi of a sample, as a batch of their own
RowsOf(ev, lo, hi) ==
  [name \in (InputNames \cup GenNames) \cap DOMAIN ev |-> SubSeq(ev[name], lo, hi)]

\* hybrid policy and derived vars run on a batch; no field when it raises
FullRun(ev) ==
  LET run == PolicyRun(ev)
  IN  IF run.ok /\ DerivedShapesAgree(run.sample)
      THEN DerivedSample(run.sample)
      ELSE <<>>

\* C8: for every split of a sample into two consecutive batches, running
\* the hybrid policy and the derived vars on each batch and concatenating
\* the outputs field by field gives the fields of the run on the whole
\* sample, and no run raises.
C8_BatchInvariance ==
  /\ ~raised
  /\ \A key \in KeySet :
       HasDerived(key) =>
         \A k \in 0..NEvents(key) :
           LET first == FullRun(RowsOf(events[key], 1, k))
               second == FullRun(RowsOf(events[key], k + 1, NEvents(key)))
           IN  /\ DOMAIN first = DOMAIN events[key]
               /\ DOMAIN second = DOMAIN events[key]
               /\ \A name \in DOMAIN events[key] :
                    first[name] \o second[name] = events[key][name]

\* a sample of two events or more, one flipped and one not, split between them
C8_Witness ==
  /\ pc = "done"
  /\ \E key \in KeySet : \E r \in 1..NEvents(key) :
       /\ r < NEvents(key)
       /\ FlipCondition(key, r) # FlipCondition(key, r + 1)
       /\ LeadSlot(key, Txbb, r) # LeadSlot(key, Txbb, r + 1)
       /\ Len(FullRun(RowsOf(events[key], 1, r))[Name("", "Dijet", "Pt")]) = r

\* the input fields of event r of a sample, as a batch of one event
RowSample(key, r) == RowsOf(events[key], r, r)

\* the fields the hybrid policy adds
CandidateNames ==
  {bbNewVar(var) : var \in Ak8Vars} \cup {VVNewVar(var) : var \in Ak15Vars}

\* events r of key and q of other have the same inputs
SameInputs(key, r, other, q) ==
  \A name \in InputNames : events[key][name][r] = events[other][name][q]

\* C9: the bb candidate, the flip decision and the final VV candidate of an
\* event depend on that event's inputs alone: two events with the same
\* inputs, in any samples and at any positions, get the same bb* and VV*
\* values, and every event gets the masks and the flip it gets as a batch
\* of its own.
C9_EventIndependence ==
  /\ \A key, other \in KeySet :
       (HasCandidates(key) /\ HasCandidates(other)) =>
         \A r \in 1..NEvents(key), q \in 1..NEvents(other) :
           SameInputs(key, r, other, q) =>
             \A name \in CandidateNames :
               /\ Len(events[key][name]) = NEvents(key)
               /\ Len(events[other][name]) = NEvents(other)
               /\ events[key][name][r] = events[other][name][q]
  /\ \A key \in KeySet :
       HasCandidates(key) =>
         \A r \in 1..NEvents(key) :
           LET solo == PolicyRun(RowSample(key, r))
           IN  /\ solo.ok
               /\ \A name \in CandidateNames :
                    /\ Len(events[key][name]) = NEvents(key)
                    /\ events[key][name][r] = solo.sample[name][1]
               /\ (key = LastKey /\ ~raised) =>
                    /\ MasksShaped
                    /\ bb_mask[r] = solo.bb_mask[1]
                    /\ VV_mask[r] = solo.VV_mask[1]
                    /\ VV_cand_overlap[r] = solo.VV_cand_overlap[1]
                    /\ VV_not_cand_farther[r] = solo.VV_not_cand_farther[1]
                    /\ final_VV_mask[r] = solo.final_VV_mask[1]

\* the same event in two samples, at different positions and next to
\* different events, flipped in both
C9_Witness ==
  /\ pc = "done"
  /\ \E key, other \in KeySet : \E r \in 1..NEvents(key), q \in 1..NEvents(other) :
       /\ key # other
       /\ r # q
       /\ NEvents(key) # NEvents(other)
       /\ SameInputs(key, r, other, q)
       /\ FlipCondition(key, r)
       /\ VVIs(other, q, OtherSlot(LeadSlot(other, Th4q, q)))

\* Delta R between the bb candidate and the final VV candidate of event r,
\* read from the bb* and VV* fields
FinalDist(key, r) ==
  DeltaR(events[key][Name("bb", "FatJet", "Eta")][r],
         events[key][Name("bb", "FatJet", "Phi")][r],
         events[key][Name("VV", "FatJet", "Eta")][r],
         events[key][Name("VV", "FatJet", "Phi")][r])

\* Delta R between the bb candidate as written and the leading VV slot
LeadDist(key, r) ==
  DeltaR(events[key][Name("bb", "FatJet", "Eta")][r],
         events[key][Name("bb", "FatJet", "Phi")][r],
         events[key][Name("ak15", "FatJet", "Eta")][r][LeadSlot(key, Th4q, r)],
         events[key][Name("ak15", "FatJet", "Phi")][r][LeadSlot(key, Th4q, r)])

\* the final VV candidate of event r is not the leading-by-score slot
Flipped(key, r) == VVSlotsDiffer(key, r) /\ ~VVIs(key, r, LeadSlot(key, Th4q, r))

\* C10: in every event Delta R between the bb candidate and the final VV
\* candidate is at least Delta R between the bb candidate and the leading
\* VV slot, and strictly greater where the flip happened.
C10_SeparationNotWorse ==
  /\ \A key \in KeySet :
       HasCandidates(key) =>
         /\ \A name \in CandidateNames : Len(events[key][name]) = NEvents(key)
         /\ \A r \in 1..NEvents(key) :
              /\ ~DRLess(FinalDist(key, r), LeadDist(key, r))
              /\ Flipped(key, r) => DRLess(LeadDist(key, r), FinalDist(key, r))
  /\ (MasksSet /\ ~raised) =>
       /\ MasksShaped
       /\ \A r \in 1..NEvents(LastKey) :
            final_VV_mask[r] # VV_mask[r] =>
              DRLess(LeadDist(LastKey, r), FinalDist(LastKey, r))

\* a flipped event next to an overlapping event left alone because its
\* other slot is closer
C10_Witness ==
  /\ MasksSet /\ MasksShaped
  /\ \E r \in 1..NEvents(LastKey) :
       /\ final_VV_mask[r] # VV_mask[r]
       /\ Flipped(LastKey, r)
       /\ DRLess(LeadDist(LastKey, r), FinalDist(LastKey, r))
  /\ \E key \in KeySet : \E r \in 1..NEvents(key) :
       /\ HasCandidates(key)
       /\ DRLessNum(DCand(key, r), dR)
       /\ DRLess(DOther(key, r), DCand(key, r))
       /\ ~Flipped(key, r)

(***************************************************************************)
(* C11: what a flip achieves                                               *)
(***************************************************************************)
\* C11 as stated: in every event where the flip happened the final VV
\* candidate is at Delta R >= 1.0 from the bb candidate.
C11_FlipResolvesOverlap_Original ==
  \A key \in KeySet :
    HasCandidates(key) =>
      \A r \in 1..NEvents(key) :
        Flipped(key, r) => ~DRLessNum(FinalDist(key, r), dR)

\* C11, amended: the VV candidate is re-assigned to the non-leading slot
\* only when the leading slot overlaps (d_cand < 1.0) and the non-leading
\* slot is strictly farther from the bb candidate; in every event where the
\* flip happened the final VV candidate is at Delta R = d_other > d_cand
\* from the bb candidate, which may itself be below 1.0.
C11_FlipResolvesOverlap_Amended ==
  \A key \in KeySet :
    HasCandidates(key) =>
      /\ \A name \in CandidateNames : Len(events[key][name]) = NEvents(key)
      /\ \A r \in 1..NEvents(key) :
           Flipped(key, r) =>
             /\ DRLessNum(DCand(key, r), dR)
             /\ FinalDist(key, r) = DOther(key, r)
             /\ DRLess(DCand(key, r), FinalDist(key, r))

\* a flipped event whose final VV candidate still overlaps the bb candidate
\* and a flipped event whose final VV candidate does not
C11_Witness ==
  /\ \E key \in KeySet : \E r \in 1..NEvents(key) :
       /\ HasCandidates(key)
       /\ Flipped(key, r)
       /\ DRLessNum(FinalDist(key, r), dR)
  /\ \E key \in KeySet : \E r \in 1..NEvents(key) :
       /\ HasCandidates(key)
       /\ Flipped(key, r)
       /\ ~DRLessNum(FinalDist(key, r), dR)

(***************************************************************************)
(* C12: angular separation                                                 *)
(***************************************************************************)
\* a deltaR call has returned
DeltaRReturned == pc = "returned" /\ call.fn = "deltaR"

\* the direction d with its phi moved by k whole turns
Turned(d, k) == Direction(d.eta, d.phi + k * TwoPi)

\* C12: Delta R of two directions is non-negative (both of its legs are, and
\* the azimuthal leg is at most pi), it is the same with the two directions
\* exchanged and with either phi moved by a whole turn, and two directions
\* of equal eta just below +pi and just above -pi are closer than dR.
C12_DeltaRSymmetricWrapped ==
  DeltaRReturned =>
    LET a == call.a
        b == call.b
    IN  /\ ret.deta >= 0
        /\ ret.dphi >= 0 /\ ret.dphi <= Pi
        /\ ~DRLessNum(ret, 0)
        /\ ret = DeltaR(b.eta, b.phi, a.eta, a.phi)
        /\ \A k \in {-1, 1} :
             /\ ret = DeltaR(a.eta, Turned(a, k).phi, b.eta, b.phi)
             /\ ret = DeltaR(a.eta, a.phi, b.eta, Turned(b, k).phi)
        /\ (a.eta = b.eta /\ a.phi = 310 /\ b.phi = -310) => DRLessNum(ret, dR)

\* the call of the claim's example: equal eta, phi = 3.10 and phi = -3.10,
\* whose Delta R is 0.08
C12_Witness ==
  /\ DeltaRReturned
  /\ call.a = Direction(0, 310) /\ call.b = Direction(0, -310)
  /\ ret = [deta |-> 0, dphi |-> 8]

(***************************************************************************)
(* C13-C14: the dijet system and the ratios                                *)
(***************************************************************************)
\* (x, y, z, t) = (px, py, pz, E) of the final bb / VV candidate of event r
CandCartesian(key, coll, r) ==
  Cartesian(events[key][Name(coll, "FatJet", "Pt")][r],
            events[key][Name(coll, "FatJet", "Phi")][r],
            events[key][Name(coll, "FatJet", "Eta")][r],
            events[key][Name(coll, "FatJet", "Msd")][r])

\* the final bb / VV candidate of event r has these kinematics
CandIs(key, coll, r, pt, phi, eta, m) ==
  /\ events[key][Name(coll, "FatJet", "Pt")][r] = pt
  /\ events[key][Name(coll, "FatJet", "Phi")][r] = phi
  /\ events[key][Name(coll, "FatJet", "Eta")][r] = eta
  /\ events[key][Name(coll, "FatJet", "Msd")][r] = m

\* event r is the back-to-back pair bb = (pt 200, phi 0, eta 0, m 100),
\* VV = (pt 200, phi pi, eta 0, m 150)
BackToBack(key, r) ==
  /\ CandIs(key, "bb", r, 200, 0, 0, 100)
  /\ CandIs(key, "VV", r, 200, Pi, 0, 150)

\* C13: DijetPt, DijetMass and DijetEta of every event are read from the
\* component-wise sum of (E, px, py, pz) of the final bb and VV candidates:
\* pt = sqrt(px^2 + py^2), M = sqrt(E^2 - px^2 - py^2 - pz^2),
\* sinh(eta) = pz / pt; for the back-to-back pair the dijet pt is 0 and the
\* dijet mass is the sum of the two energies, 223 + 250 in whole GeV, and
\* neither the scalar sum 400 of the pt nor the scalar sum 250 of the masses.
C13_DijetFourVectorSum ==
  \A key \in KeySet :
    HasDerived(key) =>
      /\ Len(events[key][Name("", "Dijet", "Pt")]) = NEvents(key)
      /\ Len(events[key][Name("", "Dijet", "Mass")]) = NEvents(key)
      /\ Len(events[key][Name("", "Dijet", "Eta")]) = NEvents(key)
      /\ \A r \in 1..NEvents(key) :
           LET bb == CandCartesian(key, "bb", r)
               VV == CandCartesian(key, "VV", r)
               px == bb.x + VV.x
               py == bb.y + VV.y
               pz == XAdd(bb.z, VV.z)
               E == XAdd(bb.t, VV.t)
               DijetPt == events[key][Name("", "Dijet", "Pt")][r]
               DijetMass == events[key][Name("", "Dijet", "Mass")][r]
               DijetEta == events[key][Name("", "Dijet", "Eta")][r]
           IN  /\ DijetPt = Num(Hypot(px, py))
               /\ (pz.k = "num" /\ E.k = "num") =>
                    /\ DijetMass.k = "num"
                    /\ Abs(DijetMass.v) =
                         ISqrt(Abs(E.v * E.v - px * px - py * py - pz.v * pz.v))
                    /\ DijetPt.v # 0 => DijetEta = Num(Quot(100 * pz.v, DijetPt.v))
               /\ BackToBack(key, r) =>
                    /\ DijetPt = Num(0)
                    /\ E = Num(223 + 250)
                    /\ DijetMass = E
                    /\ DijetMass # Num(100 + 150)

\* the back-to-back pair among the events, with its derived fields written
C13_Witness ==
  \E key \in KeySet : \E r \in 1..NEvents(key) :
    /\ HasDerived(key)
    /\ BackToBack(key, r)
    /\ events[key][Name("", "Dijet", "Pt")][r] = Num(0)
    /\ events[key][Name("", "Dijet", "Mass")][r] = Num(473)

\* the ratio of a candidate's pt to a dijet pt of exactly 0: numpy's float
\* division, inf with the sign of the numerator, nan for 0 / 0
OverZero(pt) == IF pt = 0 THEN NaN ELSE Inf(Sgn(pt))

\* C14: in every event whose dijet pt is exactly 0 the two ratios
\* bbFatJetPtOverDijetPt and VVFatJetPtOverDijetPt are non-finite (inf, or nan
\* for a zero numerator); no value is clamped or replaced.
C14_RatiosNonFiniteAtZeroDijetPt ==
  \A key \in KeySet :
    HasDerived(key) =>
      \A r \in 1..NEvents(key) :
        events[key][Name("", "Dijet", "Pt")][r] = Num(0) =>
          LET bbRatio == events[key][Name("bb", "FatJet", "PtOverDijetPt")][r]
              VVRatio == events[key][Name("VV", "FatJet", "PtOverDijetPt")][r]
          IN  /\ bbRatio.k \in {"inf", "nan"}
              /\ VVRatio.k \in {"inf", "nan"}
              /\ bbRatio = OverZero(events[key][Name("bb", "FatJet", "Pt")][r])
              /\ VVRatio = OverZero(events[key][Name("VV", "FatJet", "Pt")][r])

\* an event of dijet pt 0 with both ratios written as +inf
C14_Witness ==
  \E key \in KeySet : \E r \in 1..NEvents(key) :
    /\ HasDerived(key)
    /\ events[key][Name("", "Dijet", "Pt")][r] = Num(0)
    /\ events[key][Name("bb", "FatJet", "Pt")][r] = 200
    /\ events[key][Name("bb", "FatJet", "PtOverDijetPt")][r] = Inf(1)
    /\ events[key][Name("VV", "FatJet", "PtOverDijetPt")][r] = Inf(1)

(***************************************************************************)
(* C15-C17: errors                                                         *)
(***************************************************************************)
\* the position of key in keys
KeyIndex(key) == CHOOSE n \in 1..Len(keys) : keys[n] = key

\* the mapping of key has a bb* or VV* field
HasCandidateField(key) ==
  \E name \in DOMAIN events[key] : name[1] \in {"bb", "VV"}

\* the script stopped with an error in the hybrid-policy iteration of key
RaisedAt(key) == pc = "raised" /\ raised /\ keys[iter] = key

\* C15: a sample whose mapping lacks a required kinematic or tagger field
\* never gets a bb* or VV* field, and the script does not get past its
\* hybrid-policy iteration: it stops there with an error.
C15_MissingFieldFatal ==
  \A key \in KeySet :
    ~(RequiredFields \subseteq DOMAIN events[key]) =>
      /\ ~HasCandidateField(key)
      /\ pc = "policy" => iter <= KeyIndex(key)
      /\ pc # "policy" => RaisedAt(key) /\ ~HasCandidates(key)

\* the last sample lacks a field, the samples before it have their bb* / VV*
\* fields, and the script has stopped at it
C15_Witness ==
  LET key == keys[Len(keys)]
  IN  /\ ~(RequiredFields \subseteq DOMAIN events[key])
      /\ Name("ak15", "FatJet", "Msd") \notin DOMAIN events[key]
      /\ RaisedAt(key)
      /\ ~HasCandidateField(key)
      /\ HasCandidateField(keys[1])
      /\ printed[Len(printed)] = "prelim masks"

\* the arrays of the mapping of key do not all have the same number of rows
InconsistentLengths(key) ==
  \E a, b \in DOMAIN events[key] : Len(events[key][a]) # Len(events[key][b])

\* the iteration of key has started
Started(key) == pc # "policy" \/ iter > KeyIndex(key)

\* C16: a sample whose arrays have inconsistent lengths never gets a bb* or
\* VV* field, and its hybrid-policy iteration stops with an error before
\* anything is computed: the last line printed is the sample's name, the
\* "prelim masks" line that follows the masks is never reached.
C16_ShapeMismatchFailsFast ==
  \A key \in KeySet :
    InconsistentLengths(key) =>
      /\ ~HasCandidateField(key)
      /\ Started(key) =>
           /\ RaisedAt(key)
           /\ printed[Len(printed)] = key

\* a sentinel angle of a missing jet takes part in a Delta R of event r:
\* lines 91 and 95 take the bb candidate slot of collection A against both
\* slots of collection B
SentinelInDeltaR(key, r) ==
  LET a == LeadSlot(key, Txbb, r)
  IN  \/ \E kin \in {"Phi", "Eta"} :
           events[key][Name("ak8", "FatJet", kin)][r][a] = PadAngle
      \/ \E kin \in {"Phi", "Eta"} : \E b \in 1..2 :
           events[key][Name("ak15", "FatJet", kin)][r][b] = PadAngle

\* the lines the script prints for every sample, whatever its events
RoutineLines == KeySet \cup {"prelim masks", "fat jet arrays", "final masks"}

\* the fields of a sample after the script: inputs, truth fields, the bb* /
\* VV* fields and the derived ones
RoutineField(name) ==
  \/ name \in InputNames \cup GenNames \cup CandidateNames
  \/ name[2] = "Dijet"
  \/ name[3] \in {"PtOverDijetPt", "PtOverbbFatJetPt"}

\* something records a degenerate event of key: a printed line or a field
\* beyond the routine ones
Recorded(key) ==
  \/ \E i \in 1..Len(printed) : printed[i] \notin RoutineLines
  \/ \E name \in DOMAIN events[key] : ~RoutineField(name)

\* C17: whenever the hybrid policy has processed a sample in which a
\* sentinel slot took part in a Delta R of overlap resolution, the event is
\* recorded, by a printed line or a flag field.
C17_DegenerateGeometryFlagged ==
  \A key \in KeySet :
    (HasCandidates(key) /\ \E r \in 1..NEvents(key) : SentinelInDeltaR(key, r))
      => Recorded(key)

(***************************************************************************)
(* C18: make_vector                                                        *)
(***************************************************************************)
\* a make_vector call has returned
MakeVectorReturned == pc = "returned" /\ call.fn = "make_vector"

\* the entries of an (N,2) array, row after row
RECURSIVE Flatten(_)
Flatten(arr) == IF arr = <<>> THEN <<>> ELSE Head(arr) \o Flatten(Tail(arr))

\* the position of the i-th true entry of a 1-d boolean array
NthTrue(m, i) ==
  CHOOSE r \in 1..Len(m) : m[r] /\ Cardinality({q \in 1..r : m[q]}) = i

\* the entries of a 1-d array at the true positions of a 1-d mask, in order
Selected(arr, m) ==
  [i \in 1..Cardinality({r \in 1..Len(m) : m[r]}) |-> arr[NthTrue(m, i)]]

\* an array restricted by a mask: rows by a 1-d mask, entries by a 2-d one
Restricted(arr, mask) ==
  IF mask.dims = 1 THEN Selected(arr, mask.val)
  ELSE Selected(Flatten(arr), Flatten(mask.val))

\* the field of the mapping that a call's name and suffix spell
CallField(kin) == Name(call.name[1], call.name[2], kin)

\* the mass field the call has to read: {name}Msd when the mapping has it,
\* {name}Mass otherwise
CallMassField ==
  IF CallField("Msd") \in DOMAIN call.evs THEN CallField("Msd")
  ELSE CallField("Mass")

\* C18: make_vector(events, name, mask) has the pt, phi, eta and mass entries
\* of make_vector(events, name) restricted by the mask, in the same order;
\* with or without a mask pt, phi and eta come from {name}Pt, {name}Phi and
\* {name}Eta and the mass from {name}Msd when the mapping has that field and
\* from {name}Mass otherwise.
C18_MakeVectorMaskAligned ==
  MakeVectorReturned =>
    LET whole == make_vector(call.evs, call.name, MaskNone)
    IN  /\ whole.pt = call.evs[CallField("Pt")]
        /\ whole.phi = call.evs[CallField("Phi")]
        /\ whole.eta = call.evs[CallField("Eta")]
        /\ whole.M = call.evs[CallMassField]
        /\ ~call.mask.some => ret = whole
        /\ call.mask.some =>
             /\ ret.pt = Restricted(whole.pt, call.mask)
             /\ ret.phi = Restricted(whole.phi, call.mask)
             /\ ret.eta = Restricted(whole.eta, call.mask)
             /\ ret.M = Restricted(whole.M, call.mask)
             /\ ret.M = Restricted(call.evs[CallMassField], call.mask)

\* a masked call on a mapping with both GenHiggsMsd and GenHiggsMass, the
\* mask taking slot 1 of the first event and slot 0 of the second: the
\* masses returned are the Msd entries in that order
C18_Witness ==
  /\ MakeVectorReturned
  /\ call.name = <<"Gen", "Higgs">>
  /\ {CallField("Msd"), CallField("Mass")} \subseteq DOMAIN call.evs
  /\ call.mask = Mask(2, <<(1 :> FALSE) @@ (2 :> TRUE), (1 :> TRUE) @@ (2 :> FALSE)>>)
  /\ ret.M = <<130, 120>>
  /\ ret.M # Restricted(call.evs[CallField("Mass")], call.mask)

(***************************************************************************)
(* C19-C20: gen matching                                                   *)
(***************************************************************************)
\* C19: the gen-matching step leaves the mapping of every sample as it is,
\* fields and values, and leaves the final assignment as the hybrid policy
\* computed it: final_VV_mask is not touched, and bb_mask and VV_mask, which
\* it computes again, keep their values.
C19_GenMatchingReadOnly ==
  [][pc = "gen" =>
       /\ events' = events
       /\ final_VV_mask' = final_VV_mask
       /\ bb_mask' = bb_mask
       /\ VV_mask' = VV_mask
       /\ VV_cand_overlap' = VV_cand_overlap
       /\ VV_not_cand_farther' = VV_not_cand_farther]_vars

\* the gen-matching step has run on a signal sample with an event whose
\* collection-A scores tie and an event whose VV candidate was flipped
C19_Witness ==
  /\ pc = "derived" /\ iter = 1
  /\ fractions # <<>>
  /\ ~HasDerived(sig)
  /\ \E r \in 1..NEvents(sig) :
       /\ events[sig][Txbb][r][1] = events[sig][Txbb][r][2]
       /\ events[sig][Name("ak8", "FatJet", "Phi")][r][1]
            # events[sig][Name("ak8", "FatJet", "Phi")][r][2]
  /\ \E r \in 1..NEvents(sig) : final_VV_mask[r] # VV_mask[r]

\* the gen-matching step has displayed its fractions
FractionsDisplayed == fractions # <<>>

\* the events of the signal sample in which the scores of the final
\* candidates, bbFatJetParticleNetMD_Txbb and VVFatJetParticleNet_Th4q, both
\* exceed the cut
FinalCutEvents ==
  {r \in 1..NEvents(sig) :
     /\ events[sig][Name("bb", "FatJet", "ParticleNetMD_Txbb")][r] > TaggerCut
     /\ events[sig][Name("VV", "FatJet", "ParticleNet_Th4q")][r] > TaggerCut}

\* count / total in hundredths, for a total that is not 0
Ratio(count, total) == Num((count * 100) \div total)

\* a displayed fraction is a number of [0, 1]
InUnitInterval(x) == x.k = "num" /\ x.v >= 0 /\ x.v <= 100

\* C20: the unconditional fractions are the number of events whose
\* truth-to-reconstruction Delta R is below 1.0 over the number of events;
\* the conditional ones count the events in which the scores of the final
\* bb and VV candidates both exceed 0.8, over the number of such events;
\* each fraction lies in [0, 1].
C20_GenMatchingFractions ==
  FractionsDisplayed =>
    LET N == NEvents(sig)
        S == FinalCutEvents
        both == [r \in 1..N |-> bb_cand_correct[r] /\ VV_cand_correct[r]]
        Count(correct, among) == Cardinality({r \in among : correct[r]})
    IN  /\ \A i \in 1..Len(fractions) : InUnitInterval(fractions[i])
        /\ N > 0 =>
             /\ fractions[1] = Ratio(Count(bb_cand_correct, 1..N), N)
             /\ fractions[2] = Ratio(Count(VV_leading_correct, 1..N), N)
             /\ fractions[3] = Ratio(Count(VV_cand_correct, 1..N), N)
        /\ S # {} =>
             /\ fractions[4] = Ratio(Count(bb_cand_correct, S), Cardinality(S))
             /\ fractions[5] = Ratio(Count(VV_cand_correct, S), Cardinality(S))
             /\ fractions[6] = Ratio(Count(both, S), Cardinality(S))

(***************************************************************************)
(* C21: getParticles                                                       *)
(***************************************************************************)
\* a getParticles call has returned
GetParticlesReturned == pc = "returned" /\ call.fn = "getParticles"

\* the mapping whose GenHiggsChildren is the particle list of the call
ChildrenMapping == GenHiggsChildren :> call.particle_list

\* C21: for each of the types 'b', 'V' and 'H' getParticles returns a boolean
\* mask over particle_list, not a missing value; for 'b' it is |pdgId| = 5
\* and equals is_Hbb, for 'V' it is |pdgId| = 24 or 23 and equals is_HVV, and
\* the masks for 'b' and 'V' are never true at the same entry.
C21_GetParticlesMasks ==
  GetParticlesReturned =>
    LET l == call.particle_list
        b == getParticles(l, "b")
        V == getParticles(l, "V")
    IN  /\ ~ret.none
        /\ Len(ret.val) = Len(l)
        /\ \A r \in 1..Len(l) : \A c \in 1..2 :
             /\ ret.val[r][c] \in BOOLEAN
             /\ call.particle_type = "b" => (ret.val[r][c] <=> Abs(l[r][c]) = 5)
             /\ call.particle_type = "V" =>
                  (ret.val[r][c] <=> Abs(l[r][c]) \in {23, 24})
             /\ ~(b.val[r][c] /\ V.val[r][c])
        /\ call.particle_type = "b" => ret.val = IsHbb(ChildrenMapping)
        /\ call.particle_type = "V" => ret.val = IsHVV(ChildrenMapping)

(***************************************************************************)
(* C22: the derived features and the final assignment                      *)
(***************************************************************************)
\* (px, py, pz, E) of slot c of a collection in event r
SlotCartesian(key, coll, r, c) ==
  Cartesian(events[key][Name(coll, "FatJet", "Pt")][r][c],
            events[key][Name(coll, "FatJet", "Phi")][r][c],
            events[key][Name(coll, "FatJet", "Eta")][r][c],
            events[key][Name(coll, "FatJet", "Msd")][r][c])

\* the collection-B slot of event r after overlap resolution
FinalSlot(key, r) ==
  IF FlipCondition(key, r) THEN OtherSlot(LeadSlot(key, Th4q, r))
  ELSE LeadSlot(key, Th4q, r)

\* the sum of the bb candidate slot and slot c of collection B
SlotSum(key, r, c) ==
  VectorAdd(SlotCartesian(key, "ak8", r, LeadSlot(key, Txbb, r)),
            SlotCartesian(key, "ak15", r, c))

\* C22: the derived-feature stage starts only after the assignment stage has
\* written the bb* / VV* fields of every sample, a sample has derived fields
\* only if it has those; DijetPt, DijetMass and DijetEta of an event are those
\* of the sum of its bb candidate and its post-flip VV candidate, and the
\* three ratios are bbFatJetPt / DijetPt, VVFatJetPt / DijetPt and
\* VVFatJetPt / bbFatJetPt.
C22_DerivedFromFinalAssignment ==
  /\ pc \in {"derived", "done"} => \A key \in KeySet : HasCandidates(key)
  /\ \A key \in KeySet :
       HasDerived(key) =>
         /\ HasCandidates(key)
         /\ \A r \in 1..NEvents(key) :
              LET sum == SlotSum(key, r, FinalSlot(key, r))
                  bbPt == events[key][Name("bb", "FatJet", "Pt")][r]
                  VVPt == events[key][Name("VV", "FatJet", "Pt")][r]
                  DijetPt == events[key][Name("", "Dijet", "Pt")][r]
              IN  /\ VVIs(key, r, FinalSlot(key, r))
                  /\ DijetPt = VectorPt(sum)
                  /\ events[key][Name("", "Dijet", "Mass")][r] = VectorM(sum)
                  /\ events[key][Name("", "Dijet", "Eta")][r] = VectorEta(sum)
                  /\ events[key][Name("bb", "FatJet", "PtOverDijetPt")][r]
                       = XDiv(Num(bbPt), DijetPt, 100)
                  /\ events[key][Name("VV", "FatJet", "PtOverDijetPt")][r]
                       = XDiv(Num(VVPt), DijetPt, 100)
                  /\ events[key][Name("VV", "FatJet", "PtOverbbFatJetPt")][r]
                       = XDiv(Num(VVPt), Num(bbPt), 100)

\* a flipped event with its derived fields, whose dijet pt differs from the
\* one the pre-flip leading slot would give
C22_Witness ==
  \E key \in KeySet : \E r \in 1..NEvents(key) :
    /\ HasDerived(key)
    /\ FlipCondition(key, r)
    /\ events[key][Name("", "Dijet", "Pt")][r]
         = VectorPt(SlotSum(key, r, FinalSlot(key, r)))
    /\ events[key][Name("", "Dijet", "Pt")][r]
         # VectorPt(SlotSum(key, r, LeadSlot(key, Th4q, r)))

(***************************************************************************)
(* C23-C24: the overlap policy                                             *)
(***************************************************************************)
\* Delta R in event r between the bb candidate and slot c of collection B
BbDist(key, r, c) == SlotDist(key, r, LeadSlot(key, Txbb, r), c)

\* C23: in every event whose bb candidate and leading-by-score collection-B
\* slot are closer than dR, the final VV candidate is a collection-B slot
\* that no other slot is farther from the bb candidate than; in every other
\* event it is the leading-by-score slot, the other slot farther or not.
C23_OverlapPicksFarthest ==
  \A key \in KeySet :
    HasCandidates(key) =>
      \A r \in 1..NEvents(key) :
        IF DRLessNum(DCand(key, r), dR)
        THEN \E c \in 1..2 :
               /\ VVIs(key, r, c)
               /\ ~DRLess(BbDist(key, r, c), BbDist(key, r, OtherSlot(c)))
        ELSE VVIs(key, r, LeadSlot(key, Th4q, r))

\* an overlapping event whose VV candidate is the other, farther slot, and
\* an event without overlap that keeps its leading slot although the other
\* slot is farther
C23_Witness ==
  /\ \E key \in KeySet : \E r \in 1..NEvents(key) :
       /\ HasCandidates(key)
       /\ DRLessNum(DCand(key, r), dR)
       /\ DRLess(DCand(key, r), DOther(key, r))
       /\ VVIs(key, r, OtherSlot(LeadSlot(key, Th4q, r)))
       /\ ~VVIs(key, r, LeadSlot(key, Th4q, r))
  /\ \E key \in KeySet : \E r \in 1..NEvents(key) :
       /\ HasCandidates(key)
       /\ ~DRLessNum(DCand(key, r), dR)
       /\ DRLess(DCand(key, r), DOther(key, r))
       /\ VVIs(key, r, LeadSlot(key, Th4q, r))
       /\ ~VVIs(key, r, OtherSlot(LeadSlot(key, Th4q, r)))

\* lines 91-99 applied to a sample with the masks bbm and VVm: the final mask
Resolve(ev, bbm, VVm) ==
  LET cand_dist == BbCandVVCandDist(ev, bbm, VVm)
      not_cand_dist == BbCandVVNotCandDist(ev, bbm, VVm)
  IN  FinalVVMask(VVm, VVCandOverlap(cand_dist),
                  VVNotCandFarther(not_cand_dist, cand_dist))

\* the script's masks are those of a completed hybrid-policy iteration
MasksFinal == MasksSet /\ pc # "raised"

\* C24: the final mask is the result of lines 91-99 on the leading mask, and
\* lines 91-99 applied again, with the final mask as the input VV mask and
\* the same bb mask and kinematics, flip no event: the result is the final
\* mask.
C24_ResolutionIdempotent ==
  MasksFinal =>
    /\ final_VV_mask = Resolve(events[LastKey], bb_mask, VV_mask)
    /\ Resolve(events[LastKey], bb_mask, final_VV_mask) = final_VV_mask

\* a flipped event whose new VV candidate is still closer than dR to the bb
\* candidate: applied again, the step sees an overlap and does not flip
C24_Witness ==
  /\ MasksFinal /\ MasksShaped
  /\ \E r \in 1..NEvents(LastKey) :
       /\ final_VV_mask[r] # VV_mask[r]
       /\ DRLessNum(DOther(LastKey, r), dR)
       /\ DRLess(DCand(LastKey, r), DOther(LastKey, r))
  /\ Resolve(events[LastKey], bb_mask, final_VV_mask) = final_VV_mask

(***************************************************************************)
(* C25: the masks gen matching reads                                       *)
(***************************************************************************)
\* the hybrid policy loop has ended and the gen-matching step is next or done
LoopEnded == pc \in {"gen", "derived", "done"}

\* C25: the last sample of the hybrid policy loop is the signal sample, so
\* at the gen-matching step, and after it, bb_mask, VV_mask, VV_cand_overlap,
\* VV_not_cand_farther and final_VV_mask are those of the signal sample's
\* iteration: one entry per signal event, computed from that event's scores
\* and kinematics.
C25_GenMatchingUsesSignalMasks ==
  /\ keys[Len(keys)] = sig
  /\ LoopEnded =>
       LET ev == events[sig]
           cand_dist == BbCandVVCandDist(ev, BbMask(ev), VVMask(ev))
           not_cand_dist == BbCandVVNotCandDist(ev, BbMask(ev), VVMask(ev))
       IN  /\ LastKey = sig
           /\ Len(bb_mask) = NEvents(sig)
           /\ Len(VV_mask) = NEvents(sig)
           /\ Len(VV_cand_overlap) = NEvents(sig)
           /\ Len(final_VV_mask) = NEvents(sig)
           /\ bb_mask = BbMask(ev)
           /\ VV_mask = VVMask(ev)
           /\ VV_cand_overlap = VVCandOverlap(cand_dist)
           /\ VV_not_cand_farther = VVNotCandFarther(not_cand_dist, cand_dist)
           /\ final_VV_mask = Resolve(ev, BbMask(ev), VVMask(ev))
           /\ \A r \in 1..NEvents(sig) :
                final_VV_mask[r][FinalSlot(sig, r)]

\* the gen-matching step has run on a signal sample of two events, one of
\* them flipped, while the sample before it in the loop has one event
C25_Witness ==
  /\ pc = "derived" /\ iter = 1
  /\ NEvents(sig) = 2
  /\ NEvents(keys[Len(keys) - 1]) = 1
  /\ Len(VV_cand_correct) = 2
  /\ Len(final_VV_mask) = 2
  /\ \E r \in 1..2 : VV_cand_overlap[r] /\ final_VV_mask[r] # VV_mask[r]

(***************************************************************************)
(* C26: what the assignment loop writes                                    *)
(***************************************************************************)
\* the ak8FatJet* / ak15FatJet* fields of a mapping
Ak8Fields(ev) == {var \in DOMAIN ev : StartsWithAk8FatJet(var)}
Ak15Fields(ev) == {var \in DOMAIN ev : StartsWithAk15FatJet(var)}

\* C26: an iteration of the assignment loop leaves the other samples as they
\* are and every field of its own sample with its value; when it ends
\* without error the fields it has added are one bb<X> for each ak8FatJet<X>
\* and one VV<X> for each ak15FatJet<X> that the sample had, and nothing for
\* a field added in the loop; each has one value per event, and within an
\* event the bb* values are those of one collection-A slot and the VV*
\* values those of one collection-B slot.
C26_AugmentationOnlyAdds ==
  [][pc = "policy" =>
       LET key == keys[iter]
           old == events[key]
           new == events'[key]
           added == DOMAIN new \ DOMAIN old
       IN  /\ \A k \in KeySet \ {key} : events'[k] = events[k]
           /\ \A var \in DOMAIN old : var \in DOMAIN new /\ new[var] = old[var]
           /\ raised' => added = {}
           /\ ~raised' =>
                /\ added = {bbNewVar(var) : var \in Ak8Fields(old)}
                             \cup {VVNewVar(var) : var \in Ak15Fields(old)}
                /\ Cardinality(added)
                     = Cardinality(Ak8Fields(old)) + Cardinality(Ak15Fields(old))
                /\ \A var \in added :
                     /\ Len(new[var]) = Len(old[Weight])
                     /\ var[1] \in {"bb", "VV"}
                /\ \A r \in 1..Len(old[Weight]) :
                     /\ \E a \in 1..2 : \A var \in Ak8Fields(old) :
                          new[bbNewVar(var)][r] = old[var][r][a]
                     /\ \E b \in 1..2 : \A var \in Ak15Fields(old) :
                          new[VVNewVar(var)][r] = old[var][r][b]]_vars

\* the loop has ended on a last sample of two events that take their bb*
\* values from different slots, and every input field still has both slots
C26_Witness ==
  /\ pc = "gen"
  /\ NEvents(sig) = 2
  /\ \A var \in Ak8Vars \cup Ak15Vars :
       /\ Len(events[sig][var]) = 2
       /\ \A r \in 1..2 : Len(events[sig][var][r]) = 2
  /\ BbIs(sig, 1, 1) /\ ~BbIs(sig, 1, 2)
  /\ BbIs(sig, 2, 2) /\ ~BbIs(sig, 2, 1)
  /\ DOMAIN events[sig] \ (InputNames \cup GenNames) = CandidateNames

(***************************************************************************)
(* C27: the Lund-plane scale factors of the skimmer                        *)
(***************************************************************************)
ProcessReturned == pc = "returned" /\ call.fn = "process"

\* the selection mask of the events of the call
SelectionMask == [i \in 1..Len(call.events) |-> call.events[i].selected]

\* the events of the call that are top-matched
TopMatched(i) == call.events[i].matching = "top_matched"

\* the array that has the computed value of the top-matched events and 0
\* for all other events
ZeroFilled(field) ==
  [i \in 1..Len(call.events) |->
     IF TopMatched(i) THEN call.events[i][field] ELSE 0]

\* C27: for the TTToSemiLeptonic dataset process ends without an exception,
\* and lp_sf and lp_sf_err of skimmed_events are the arrays with one entry
\* per input event, holding the scale factor (its error) of the top-matched
\* events and 0 for all others, filtered by the selection mask.
C27_LundSFZeroFilled ==
  (ProcessReturned /\ call.dataset = "TTToSemiLeptonic") =>
     /\ ret.raised = ""
     /\ ret.val["lp_sf"] = BoolIndexed(ZeroFilled("sf_nom"), SelectionMask)
     /\ ret.val["lp_sf_err"] = BoolIndexed(ZeroFilled("sf_err"), SelectionMask)

(***************************************************************************)
(* C28: the event weights of the skimmer                                   *)
(***************************************************************************)
\* the events of the call that pass the selection, in their order
SelectedEvents == BoolIndexed(call.events, SelectionMask)

\* the scale of the weights of the dataset of the call: xsec * lumi(year) when
\* the dataset is in the cross-section table, 1 when it is not
WeightScale ==
  IF call.dataset \in DOMAIN XSECS
  THEN XSECS[call.dataset] * LUMI[call.year]
  ELSE 1

\* the weights in skimmed arrays are the claimed ones
WeightsAsClaimed(skimmed) ==
  LET weight == skimmed["weight"]
      n == Len(SelectedEvents)
  IN  /\ Len(weight) = n
      /\ IF call.dataset \in JetHTDatasets
         THEN \A i \in 1..n : weight[i] = 1
         ELSE /\ \A i \in 1..n :
                   weight[i] = Sign(SelectedEvents[i].genWeight) * WeightScale
              /\ \A i, j \in 1..n : Abs(weight[i]) = Abs(weight[j])
              /\ \A i \in 1..n :
                   weight[i] < 0 <=> SelectedEvents[i].genWeight < 0

\* C28: process ends without an exception and the weight of every skimmed
\* event is 1 for data and, for simulation, sign(genWeight) * xsec * lumi(year)
\* when the dataset is in the cross-section table and sign(genWeight) when it
\* is not; all weights of the chunk have the same magnitude, and a weight is
\* negative exactly when genWeight is negative.
C28_EventWeights ==
  ProcessReturned => (ret.raised = "" /\ WeightsAsClaimed(ret.val))

(***************************************************************************)
(* C29: the file ranges of get_fileset                                     *)
(***************************************************************************)
GetFilesetReturned == pc = "returned" /\ call.fn = "get_fileset"

\* the index the call reads
CallIndex ==
  IF call.processor = "trigger" THEN SingleMuonIndex(call.year, call.fnames)
  ELSE PfNanoIndex(call.year, call.fnames)

\* the file lists of the subsamples of the index whose key is the given one
FileListsOf(key) ==
  UNION {{CallIndex[sample][sub] :
            sub \in {sb \in DOMAIN CallIndex[sample] :
                       key = call.year \o "_" \o sb}} :
         sample \in DOMAIN CallIndex}

\* the files F[i] with starti <= i < endi (endi < 0: to the end of F), each
\* with the redirector in front, for starti >= 0
RangeOf(F, starti, endi) ==
  LET upto == IF endi < 0 \/ endi > Len(F) THEN Len(F) ELSE endi
      n == IF upto > starti THEN upto - starti ELSE 0
  IN  [j \in 1..n |-> "root://cmsxrootd.fnal.gov//" \o F[starti + j]]

\* what the job with the given range returns for a key
JobFiles(key, starti, endi) ==
  get_fileset(call.processor, call.year, call.samples, call.subsamples,
              starti, endi, call.fnames).val[key]

\* the files of the jobs [0,k), [k,2k), ..., [(m-1)k, mk), one after the other
RECURSIVE JobsFiles(_, _, _)
JobsFiles(key, k, m) ==
  IF m = 0 THEN <<>>
  ELSE JobsFiles(key, k, m - 1) \o JobFiles(key, (m - 1) * k, m * k)

\* C29: every key of the file set get_fileset returns is '<year>_<subsample>'
\* of a subsample with file list F; its files are F[starti:endi] when
\* endi >= 0 and F[starti:] when endi < 0, each prefixed with the xrootd
\* redirector; and when the call is the first job [0,k) of a series, the
\* jobs with ranges [0,k), ..., [(m-1)k, mk) followed by a last job from mk
\* with endi < 0 return, one after the other, every file of F exactly once.
C29_FileRangesPartition ==
  (GetFilesetReturned /\ ret.raised = "") =>
     \A key \in DOMAIN ret.val :
        /\ FileListsOf(key) # {}
        /\ \A F \in FileListsOf(key) :
              /\ ret.val[key] = RangeOf(F, call.starti, call.endi)
              /\ (call.starti = 0 /\ call.endi > 0) =>
                    \A m \in 0..MaxFiles :
                       JobsFiles(key, call.endi, m)
                         \o JobFiles(key, m * call.endi, -1)
                           = RangeOf(F, 0, -1)

\* the first job of a series of jobs of one file each over a list of MaxFiles
\* files has returned its one file
C29_Witness ==
  /\ GetFilesetReturned
  /\ ret.raised = ""
  /\ Len(call.fnames) = MaxFiles
  /\ call.starti = 0
  /\ call.endi = 1
  /\ \E key \in DOMAIN ret.val :
        /\ call.fnames \in FileListsOf(key)
        /\ Len(ret.val[key]) = 1

(***************************************************************************)
(* C30: the executor and the file set main runs over                       *)
(***************************************************************************)
MainReturned == pc = "returned" /\ call.fn = "main"

\* what main leaves with the same arguments and the given executor
MainWith(executor) ==
  main([call.args EXCEPT !.executor = executor], call.fnames)

\* C30: with the same arguments main runs the processor over the same file
\* set (the same dataset keys and the same files) whichever executor is
\* chosen: what the dask executor is run over is what the futures and the
\* iterative executor are run over, with the file set of get_fileset and with
\* that of --files.
C30_ExecutorSameFileset ==
  MainReturned =>
     /\ MainWith("dask") = MainWith("futures")
     /\ MainWith("dask") = MainWith("iterative")

====
